---- MODULE Spec2Model ----
(***************************************************************************)
(* Model of the candidate queue of x-quote-rt-bot: the Queue Store         *)
(* (src/collect/queue_manager.py), the feedback log it writes, and the     *)
(* commands that drive it (src/main.py, src/post/x_poster.py,              *)
(* src/post/safety_checker.py).                                            *)
(***************************************************************************)
EXTENDS Integers, Sequences, FiniteSets, TLC

\* ------------------------------------------------------------------ bounds
MaxTweets == 2
MaxFeedback == 2
MaxNow == 1

TweetIds == 1..MaxTweets

\* ------------------------------------------------------------------ values
\* A text is represented by the features SafetyChecker.check and the
\* truthiness test of get_generated look at.
\* (len: characters without newlines, ng: holds an NG word, tags: hashtags,
\* links: URLs, score: PostScorer total of the text)
NoText == [len |-> 0, ng |-> FALSE, tags |-> 0, links |-> 0, score |-> 0]
TextOk == [len |-> 100, ng |-> FALSE, tags |-> 0, links |-> 0, score |-> 8]
TextLong == [len |-> 240, ng |-> FALSE, tags |-> 1, links |-> 0, score |-> 5]
TextNg == [len |-> 100, ng |-> TRUE, tags |-> 0, links |-> 0, score |-> 8]
GenTexts == {TextOk, TextLong, TextNg}
StoreTexts == {TextOk}
\* length of a source URL, https://x.com/<user>/status/<id>
UrlLen == 30

\* score: None, or the dict {"total": n} held as <<n>>
NoScore == <<>>
Absent == "absent"
PostedIds == {"p9"}
SkipReasons == {"", "low_quality"}

\* ------------------------------------------------------------------ state
VARIABLES
    pending,     \* content of pending_tweets.json   (sequence of records)
    processed,   \* content of processed_tweets.json (sequence of records)
    feedback,    \* content of selection_feedback.json
    now,         \* the clock read by datetime.now(JST), in days
    lastOp,      \* the most recent step: name, arguments, result, status found
    everDecided, \* history: the tweet_ids that have been approved or skipped
    mode,        \* config.mode
    daily,       \* data/output/daily/<date>_<account>.json: date and posts
    run,         \* the command that is running and its local variables
    wire,        \* the request to the posting RPC that is in flight
    checked,     \* the latest SafetyChecker.check call: argument and result
    ov,          \* overlapping runs: each run's step and the lists it loaded
    cp,          \* overlapping curate-post runs: each run's step and locals
    sent,        \* history: per tweet_id, the posts the posting RPC published
    plan,        \* a plan_daily call: its arguments, draws and the plan so far
    prefsFile,   \* content of config/selection_preferences.json
    updater,     \* one PreferenceUpdater instance: _prefs, _feedback, history
    remote,      \* users/{uid}/queue_decisions: the decision documents
    sync,        \* sync_queue_decisions: the run's locals and the history
    ops,         \* users/{uid}/operation_requests: the request documents
    po,          \* a process-operations run: its step and locals
    disk,        \* a JSON file, its .bak and its .tmp sibling
    io,          \* safe_json_load / atomic_json_save calls: steps and results
    retry,       \* a retry_with_backoff call: attempts, sleeps, outcome
    urlv,        \* a TweetParser call: the URL given and the result
    limit,       \* posting_rules.daily_limit_per_account of safety_rules.json
    lastPost,    \* history: how long ago curate-post last published
    generator,   \* one QuoteGenerator instance and its latest generate() call
    qf,          \* the queue files with the .bak of the pending file
    por          \* two overlapping process-operations runs

storeVars == <<pending, processed, feedback, now, lastOp, everDecided>>
extVars == <<ops, po, disk, io, retry, urlv, limit, lastPost, generator, qf, por>>
auxVars == <<cp, sent, plan, prefsFile, updater, remote, sync, extVars>>
cmdVars == <<mode, daily, run, wire, checked, ov, auxVars>>
vars == <<pending, processed, feedback, now, lastOp, everDecided,
          mode, daily, run, wire, checked, ov,
          cp, sent, plan, prefsFile, updater, remote, sync,
          ops, po, disk, io, retry, urlv, limit, lastPost, generator, qf, por>>

\* --------------------------------------------------------------- helpers
Ids(s) == {s[i].tweet_id : i \in 1..Len(s)}

Indices(s, t) == {i \in 1..Len(s) : s[i].tweet_id = t}

\* index of the first record with this tweet_id (0: none), as the
\* "for item in pending: if item[tweet_id] == tweet_id" loops find it
FirstIndex(s, t) ==
    IF Indices(s, t) = {} THEN 0
    ELSE CHOOSE i \in Indices(s, t) : \A j \in Indices(s, t) : i <= j

RemoveAt(s, i) == SubSeq(s, 1, i - 1) \o SubSeq(s, i + 1, Len(s))

RECURSIVE Filter(_, _)
Filter(s, keep) ==
    IF s = <<>> THEN <<>>
    ELSE IF keep[1] THEN <<Head(s)>> \o Filter(Tail(s), Tail(keep))
         ELSE Filter(Tail(s), Tail(keep))

NoCall == [name |-> "none", id |-> 0, arg |-> "", ret |-> FALSE, prev |-> "none"]

Call(name, id, arg, ret, prev) ==
    [name |-> name, id |-> id, arg |-> arg, ret |-> ret, prev |-> prev]

\* the ids of the records a store holds as approved or skipped
DecidedIn(s) == {s[i].tweet_id : i \in {j \in 1..Len(s) : s[j].status \in {"approved", "skipped"}}}

Track == everDecided' = everDecided \cup DecidedIn(pending')

\* status of the first record with this id in a store ("none": not there)
StatusIn(s, t) == IF FirstIndex(s, t) = 0 THEN "none" ELSE s[FirstIndex(s, t)].status

\* ------------------------------------------------------------ Queue Store
\* ParsedTweet.author_username: the account that wrote the tweet
AuthorOf(t) == IF t % 2 = 1 THEN "alice" ELSE "bob"

\* the entry add() builds from a ParsedTweet
NewEntry(t) ==
    [tweet_id |-> t, author_username |-> AuthorOf(t),
     status |-> "pending", generated_text |-> NoText,
     score |-> NoScore, skip_reason |-> "",
     posted_tweet_id |-> Absent, posted_at |-> 0]

\* a duplicate check that forgets the processed store
AddIsDupPendingOnly(pend, proc, t) == t \in Ids(pend)

\* add(): the duplicate check over pending and processed
AddIsDup(pend, proc, t) == t \in (Ids(pend) \cup Ids(proc))

\* an add that appends without looking at the duplicate check
AddResultUnguarded(pend, proc, t) == Append(pend, NewEntry(t))

\* add(): the pending store after the call
AddResult(pend, proc, t) ==
    IF AddIsDup(pend, proc, t) THEN pend ELSE Append(pend, NewEntry(t))

NoSourceStats == [approved |-> 0, skipped |-> 0]

EmptyStats == [total |-> 0, approved |-> 0, skipped |-> 0,
               by_source |-> [s \in {} |-> NoSourceStats]]

EmptyFeedback == [entries |-> <<>>, stats |-> EmptyStats]

\* a source key that ignores the author
FeedbackSourceUnknown(item) == "unknown"

\* _record_feedback(): the by_source key of a record
FeedbackSource(item) == item.author_username

\* _record_feedback(): by_source after setdefault and the increment
BySourceAfter(by_source, source, decision) ==
    [s \in DOMAIN by_source \cup {source} |->
        IF s # source THEN by_source[s]
        ELSE IF s \in DOMAIN by_source
             THEN [by_source[s] EXCEPT ![decision] = @ + 1]
             ELSE [NoSourceStats EXCEPT ![decision] = @ + 1]]

\* _record_feedback(): one entry appended, counters bumped, one write
RecordFeedback(fb, item, decision) ==
    [entries |-> Append(fb.entries,
                        [tweet_id |-> item.tweet_id,
                         author_username |-> item.author_username,
                         decision |-> decision,
                         skip_reason |-> item.skip_reason]),
     stats |-> [fb.stats EXCEPT
                   !.total = @ + 1, ![decision] = @ + 1,
                   !.by_source = BySourceAfter(@, FeedbackSource(item), decision)]]

FeedbackRoom(n) == Len(feedback.entries) + n <= MaxFeedback

Add(t) ==
    /\ UNCHANGED cmdVars
    /\ pending' = AddResult(pending, processed, t)
    /\ lastOp' = Call("add", t, "", ~AddIsDup(pending, processed, t), StatusIn(pending, t))
    /\ Track
    /\ UNCHANGED <<processed, feedback, now>>

\* add_batch(): add() for each tweet of the list, in order
RECURSIVE AddBatchResult(_, _, _)
AddBatchResult(pend, proc, ts) ==
    IF ts = <<>> THEN pend
    ELSE AddBatchResult(AddResult(pend, proc, Head(ts)), proc, Tail(ts))

AddBatch(ts) ==
    /\ UNCHANGED cmdVars
    /\ pending' = AddBatchResult(pending, processed, ts)
    /\ lastOp' = Call("add_batch", 0, "", Len(pending') > Len(pending), "none")
    /\ Track
    /\ UNCHANGED <<processed, feedback, now>>

\* approve(): the first record with the id becomes approved, whatever its
\* status was; the feedback entry is written after the store is saved
ApproveResult(pend, t) ==
    IF FirstIndex(pend, t) = 0 THEN pend
    ELSE [pend EXCEPT ![FirstIndex(pend, t)].status = "approved"]

\* approve(): the feedback file after the call
ApproveFeedback(fb, pend, t) ==
    IF FirstIndex(pend, t) = 0 THEN fb
    ELSE RecordFeedback(fb, ApproveResult(pend, t)[FirstIndex(pend, t)], "approved")

Approve(t) ==
    /\ UNCHANGED cmdVars
    /\ FeedbackRoom(1)
    /\ pending' = ApproveResult(pending, t)
    /\ feedback' = ApproveFeedback(feedback, pending, t)
    /\ lastOp' = Call("approve", t, "", FirstIndex(pending, t) # 0, StatusIn(pending, t))
    /\ Track
    /\ UNCHANGED <<processed, now>>

\* approve_all_pending(): every pending record becomes approved; the
\* method does not call _record_feedback
ApproveAllResult(pend) ==
    [i \in 1..Len(pend) |->
        IF pend[i].status = "pending" THEN [pend[i] EXCEPT !.status = "approved"]
        ELSE pend[i]]

ApproveAllPending ==
    /\ UNCHANGED cmdVars
    /\ pending' = ApproveAllResult(pending)
    /\ lastOp' = Call("approve_all_pending", 0, "", pending' # pending, "none")
    /\ Track
    /\ UNCHANGED <<processed, feedback, now>>

\* a skip that toggles: skipping a skipped record puts it back to pending
SkipResultToggle(pend, t, reason) ==
    IF FirstIndex(pend, t) = 0 THEN pend
    ELSE [pend EXCEPT ![FirstIndex(pend, t)].status =
                          IF @ = "skipped" THEN "pending" ELSE "skipped",
                      ![FirstIndex(pend, t)].skip_reason = reason]

\* skip_with_reason(): skip() is skip_with_reason with an empty reason
SkipResult(pend, t, reason) ==
    IF FirstIndex(pend, t) = 0 THEN pend
    ELSE [pend EXCEPT ![FirstIndex(pend, t)].status = "skipped",
                      ![FirstIndex(pend, t)].skip_reason = reason]

\* skip_with_reason(): the feedback file after the call
SkipFeedback(fb, pend, t, reason) ==
    IF FirstIndex(pend, t) = 0 THEN fb
    ELSE RecordFeedback(fb, SkipResult(pend, t, reason)[FirstIndex(pend, t)], "skipped")

SkipWithReason(t, reason) ==
    /\ UNCHANGED cmdVars
    /\ FeedbackRoom(1)
    /\ pending' = SkipResult(pending, t, reason)
    /\ feedback' = SkipFeedback(feedback, pending, t, reason)
    /\ lastOp' = Call("skip_with_reason", t, reason, FirstIndex(pending, t) # 0, StatusIn(pending, t))
    /\ Track
    /\ UNCHANGED <<processed, now>>

\* remove(): every record with the id leaves the pending store
RemoveResult(pend, t) ==
    Filter(pend, [i \in 1..Len(pend) |-> pend[i].tweet_id # t])

Remove(t) ==
    /\ UNCHANGED cmdVars
    /\ pending' = RemoveResult(pending, t)
    /\ lastOp' = Call("remove", t, "", Len(pending') < Len(pending), StatusIn(pending, t))
    /\ Track
    /\ UNCHANGED <<processed, feedback, now>>

\* set_generated(): text and score of the first record with the id
SetGeneratedResult(pend, t, text, score) ==
    IF FirstIndex(pend, t) = 0 THEN pend
    ELSE [pend EXCEPT ![FirstIndex(pend, t)].generated_text = text,
                      ![FirstIndex(pend, t)].score = score]

SetGenerated(t, text, score) ==
    /\ UNCHANGED cmdVars
    /\ pending' = SetGeneratedResult(pending, t, text, score)
    /\ lastOp' = Call("set_generated", t, "", FirstIndex(pending, t) # 0, StatusIn(pending, t))
    /\ Track
    /\ UNCHANGED <<processed, feedback, now>>

\* mark_posted(): the first record with the id is stamped and moved from
\* the pending list to the end of the processed list; both lists are saved
MarkPostedPending(pend, t) ==
    IF FirstIndex(pend, t) = 0 THEN pend ELSE RemoveAt(pend, FirstIndex(pend, t))

\* a move that forgets the posted_at stamp
MarkPostedProcessedNoStamp(pend, proc, t, pid, clock) ==
    IF FirstIndex(pend, t) = 0 THEN proc
    ELSE Append(proc, [pend[FirstIndex(pend, t)] EXCEPT
                          !.status = "posted",
                          !.posted_tweet_id = pid])

MarkPostedProcessed(pend, proc, t, pid, clock) ==
    IF FirstIndex(pend, t) = 0 THEN proc
    ELSE Append(proc, [pend[FirstIndex(pend, t)] EXCEPT
                          !.status = "posted",
                          !.posted_tweet_id = pid,
                          !.posted_at = clock])

MarkPosted(t, pid) ==
    /\ UNCHANGED cmdVars
    /\ pending' = MarkPostedPending(pending, t)
    /\ processed' = MarkPostedProcessed(pending, processed, t, pid, now)
    /\ lastOp' = Call("mark_posted", t, pid, FirstIndex(pending, t) # 0, StatusIn(pending, t))
    /\ UNCHANGED <<feedback, now, everDecided>>

\* cleanup_old(): processed records stamped before now - days are dropped
CleanupResult(proc, clock, days) ==
    Filter(proc, [i \in 1..Len(proc) |-> proc[i].posted_at >= clock - days])

CleanupOld(days) ==
    /\ UNCHANGED cmdVars
    /\ processed' = CleanupResult(processed, now, days)
    /\ lastOp' = Call("cleanup_old", 0, "", Len(processed') < Len(processed), "none")
    /\ UNCHANGED <<pending, feedback, now, everDecided>>

\* the clock advances; a day starts at 1 so that 0 can stand for "no stamp"
Tick ==
    /\ UNCHANGED cmdVars
    /\ now < 1 + MaxNow
    /\ now' = now + 1
    /\ lastOp' = Call("tick", 0, "", TRUE, "none")
    /\ UNCHANGED <<pending, processed, feedback, everDecided>>

\* ------------------------------------------------------------ Safety Gate
QuoteMinLen == 30
QuoteMaxLen == 250
MinLength == 40
MaxLength == 280
MaxHashtags == 3
MaxLinks == 1

\* SafetyChecker.check(text, is_quote_rt=...) as cmd_post and cmd_curate_post
\* call it: no past_posts, no last_post_minutes_ago, no quote_rt_context, so
\* the NG-word, length, hashtag and (originals only) link rules decide
IsSafe(text, is_quote_rt) ==
    /\ ~text.ng
    /\ text.len >= (IF is_quote_rt THEN QuoteMinLen ELSE MinLength)
    /\ text.len <= (IF is_quote_rt THEN QuoteMaxLen ELSE MaxLength)
    /\ text.tags <= MaxHashtags
    /\ (is_quote_rt \/ text.links <= MaxLinks)

\* the time since the latest publication of curate-post: none yet, less
\* than posting_interval_min_minutes ago, or at least that long ago
NoPost == "none"
Recent == "recent"
Past == "past"

\* rule 7 of check(): a last_post_minutes_ago below the minimum interval is
\* a violation; None skips the rule
NoMinutes == "none"
IntervalViolation(last_post_minutes_ago) ==
    last_post_minutes_ago # NoMinutes /\ last_post_minutes_ago = Recent

\* the last_post_minutes_ago cmd_curate_post hands to check(): it passes none
LastPostArg(last) == NoMinutes

Check(text, is_quote_rt) ==
    [text |-> text, is_quote_rt |-> is_quote_rt, is_safe |-> IsSafe(text, is_quote_rt)]

NoCheck == [text |-> NoText, is_quote_rt |-> FALSE, is_safe |-> FALSE]

\* ---------------------------------------------------------------- config
Modes == {"manual_approval", "semi_auto", "auto"}
AutoPostMinScore == 8
DailyLimit == 2
DailyLimits == 1..DailyLimit

\* ------------------------------------------------------- command run state
\* resp: the answer to the latest request of the post_tweet call under way
\* gen_unsafe: the records for which every generation attempt of the latest
\* curate failed the safety gate
NoId == 0
NoUrl == "none"
Idle ==
    [cmd |-> "none", pc |-> "idle", items |-> <<>>, text |-> NoText,
     quote_tweet_id |-> NoId, quote_url |-> NoUrl, attempt |-> 0, result |-> Absent,
     resp |-> "none", gen_unsafe |-> {}]

NoReq == [text |-> NoText, quote_tweet_id |-> NoId, kind |-> "none"]

\* the source URL of a queue record (ParsedTweet.url)
UrlOf(t) == "url"

\* the operator sets MODE (environment or accounts config) between runs
SetMode(m) ==
    /\ run.cmd = "none"
    /\ mode # m
    /\ mode' = m
    /\ UNCHANGED storeVars
    /\ UNCHANGED <<auxVars, daily, run, wire, checked, ov>>

\* ------------------------------------------------------ tools/add_tweet.py
\* (lastOp and everDecided observe the direct calls of SpecStore only; the
\* commands leave them alone)
\* add_tweet.py <url>: queue.add
ToolAdd(t) ==
    /\ run.cmd = "none"
    /\ pending' = AddResult(pending, processed, t)
    /\ UNCHANGED <<processed, feedback, now, lastOp, everDecided>>
    /\ UNCHANGED cmdVars

\* add_tweet.py --approve <id>: queue.approve
ToolApprove(t) ==
    /\ run.cmd = "none"
    /\ FeedbackRoom(1)
    /\ pending' = ApproveResult(pending, t)
    /\ feedback' = ApproveFeedback(feedback, pending, t)
    /\ UNCHANGED <<processed, now, lastOp, everDecided>>
    /\ UNCHANGED cmdVars

\* add_tweet.py --skip <id>: queue.skip, a skip_with_reason without reason
ToolSkip(t) ==
    /\ run.cmd = "none"
    /\ FeedbackRoom(1)
    /\ pending' = SkipResult(pending, t, "")
    /\ feedback' = SkipFeedback(feedback, pending, t, "")
    /\ UNCHANGED <<processed, now, lastOp, everDecided>>
    /\ UNCHANGED cmdVars

\* add_tweet.py --approve-all: queue.approve_all_pending
ToolApproveAll ==
    /\ run.cmd = "none"
    /\ pending' = ApproveAllResult(pending)
    /\ UNCHANGED <<processed, feedback, now, lastOp, everDecided>>
    /\ UNCHANGED cmdVars

\* ------------------------------------------------------------- cmd_curate
\* get_approved(): the approved records of the pending store
GetApproved(pend) ==
    Filter(pend, [i \in 1..Len(pend) |-> pend[i].status = "approved"])

\* cmd_curate: for each approved record the generator returns a text (any
\* text the LLM may give, or none); a non-empty one is stored with its score
RECURSIVE CurateResult(_, _, _)
CurateResult(pend, approved, gen) ==
    IF approved = <<>> THEN pend
    ELSE CurateResult(
            IF gen[Head(approved).tweet_id] = NoText THEN pend
            ELSE SetGeneratedResult(pend, Head(approved).tweet_id,
                                    gen[Head(approved).tweet_id],
                                    <<gen[Head(approved).tweet_id].score>>),
            Tail(approved), gen)

\* QuoteGenerator.generate: a first text, then up to GenRetries more while
\* the latest scored text has a total under GenMinScore or fails
\* SafetyChecker.check(text); the text generated last is returned
GenRetries == 2
GenMinScore == 5
\* a test that never lets the loop stop early
GenPassesNever(text) == FALSE

GenPasses(text) == text.score >= GenMinScore /\ IsSafe(text, FALSE)

\* the texts of the calls of _generate_single, in order; a call that is not
\* made (the first gave nothing, or an earlier text passed) or that fails
\* gives no text
Attempts ==
    {<<NoText, NoText, NoText>>, <<TextOk, NoText, NoText>>,
     <<TextNg, TextOk, NoText>>, <<TextNg, TextNg, TextLong>>,
     <<TextNg, TextNg, TextNg>>}

\* the retry loop after k calls: text is the latest text, judged the text
\* the score and the safety result were taken from
RECURSIVE GenerateFrom(_, _, _, _)
GenerateFrom(text, judged, att, k) ==
    IF k > GenRetries \/ GenPasses(judged) THEN text
    ELSE GenerateFrom(att[k + 1],
                      IF att[k + 1] # NoText THEN att[k + 1] ELSE judged,
                      att, k + 1)

Generate(att) == IF att[1] = NoText THEN NoText ELSE GenerateFrom(att[1], att[1], att, 1)

\* every attempt gave a text and each of them failed SafetyChecker.check
EveryAttemptUnsafe(att) ==
    \A k \in 1..(GenRetries + 1) : att[k] # NoText /\ ~IsSafe(att[k], FALSE)

Curate(att) ==
    /\ run.cmd = "none"
    /\ GetApproved(pending) # <<>>
    /\ pending' = CurateResult(pending, GetApproved(pending),
                               [t \in Ids(GetApproved(pending)) |-> Generate(att[t])])
    /\ run' = [Idle EXCEPT !.gen_unsafe =
                  {t \in Ids(GetApproved(pending)) : EveryAttemptUnsafe(att[t])}]
    /\ UNCHANGED <<processed, feedback, now, lastOp, everDecided>>
    /\ UNCHANGED <<mode, daily, wire, checked, ov, auxVars>>

\* ------------------------------------------------------ XPoster.post_tweet
Responses == {"200", "200_badjson", "403_quoting", "403_json", "401", "5xx"}
MaxAttempts == 3

\* the text of the URL-embed fallback request: text + newline + quote_url
FallbackText(text) ==
    [text EXCEPT !.len = @ + UrlLen, !.links = @ + 1]

\* a request leaves: session.post(.../tweets, json=payload), or, after a
\* 403 "Quoting" answer, the fallback with text + URL and no quote_tweet_id
PostTweetSend ==
    /\ run.pc \in {"send", "fb_send"}
    /\ wire' = IF run.pc = "send"
               THEN [text |-> run.text, quote_tweet_id |-> run.quote_tweet_id,
                     kind |-> "tweet"]
               ELSE [text |-> FallbackText(run.text), quote_tweet_id |-> NoId,
                     kind |-> "fallback"]
    /\ run' = [run EXCEPT !.pc = IF run.pc = "send" THEN "wait" ELSE "fb_wait"]
    /\ UNCHANGED <<auxVars, ov, mode, daily, checked>>
    /\ UNCHANGED storeVars

\* what post_tweet does with the answer to its request
RecvOutcome(r, resp) ==
    IF r.pc = "fb_wait" THEN
         IF resp = "200" THEN [r EXCEPT !.pc = "returned", !.result = "p9"]
         ELSE [r EXCEPT !.pc = "raised"]
    ELSE IF resp = "200" THEN [r EXCEPT !.pc = "returned", !.result = "p9"]
    ELSE IF resp = "200_badjson" THEN [r EXCEPT !.pc = "raised"]
    ELSE IF resp = "403_quoting" THEN
         IF r.quote_url # NoUrl /\ r.quote_tweet_id # NoId
         THEN [r EXCEPT !.pc = "fb_send"]
         ELSE [r EXCEPT !.pc = "raised"]
    ELSE IF resp = "403_json" THEN [r EXCEPT !.pc = "raised"]
    ELSE IF r.attempt + 1 < MaxAttempts
         THEN [r EXCEPT !.pc = "send", !.attempt = @ + 1]
         ELSE [r EXCEPT !.pc = "raised"]

\* the answer that reports the tweet as published and carries its id
Published == {"200"}

\* the response arrives
PostTweetRecv(resp) ==
    /\ run.pc \in {"wait", "fb_wait"}
    /\ wire' = NoReq
    /\ run' = [RecvOutcome(run, resp) EXCEPT !.resp = resp]
    /\ lastPost' = IF run.cmd = "curate_post" /\ resp \in Published
                   THEN Recent ELSE lastPost
    /\ UNCHANGED <<cp, sent, plan, prefsFile, updater, remote, sync>>
    /\ UNCHANGED <<ops, po, disk, io, retry, urlv, limit, generator, qf, por>>
    /\ UNCHANGED <<ov, mode, daily, checked>>
    /\ UNCHANGED storeVars

\* posting_interval_min_minutes pass without a publication
Elapse ==
    /\ lastPost = Recent
    /\ lastPost' = Past
    /\ UNCHANGED storeVars
    /\ UNCHANGED <<cp, sent, plan, prefsFile, updater, remote, sync>>
    /\ UNCHANGED <<ops, po, disk, io, retry, urlv, limit, generator, qf, por>>
    /\ UNCHANGED <<ov, mode, daily, run, wire, checked>>

\* the operator edits daily_limit_per_account between runs
SetDailyLimit(l) ==
    /\ run.cmd = "none"
    /\ limit # l
    /\ limit' = l
    /\ UNCHANGED storeVars
    /\ UNCHANGED <<cp, sent, plan, prefsFile, updater, remote, sync>>
    /\ UNCHANGED <<ops, po, disk, io, retry, urlv, lastPost, generator, qf, por>>
    /\ UNCHANGED <<ov, mode, daily, run, wire, checked>>

\* -------------------------------------------------------- cmd_curate_post
\* a get_generated that forgets the status test
GetGeneratedAnyStatus(pend) ==
    Filter(pend, [i \in 1..Len(pend) |-> pend[i].generated_text # NoText])

\* get_generated(): approved records with a non-empty generated_text
GetGenerated(pend) ==
    Filter(pend, [i \in 1..Len(pend) |->
                    pend[i].status = "approved" /\ pend[i].generated_text # NoText])

\* a count that looks at yesterday's stamps
TodayPostedCountYesterday(proc, clock) ==
    Cardinality({i \in 1..Len(proc) : proc[i].posted_at = clock - 1})

\* get_today_posted_count(): processed records stamped today
TodayPostedCount(proc, clock) ==
    Cardinality({i \in 1..Len(proc) : proc[i].posted_at = clock})

Take(s, n) == SubSeq(s, 1, IF n < Len(s) THEN n ELSE Len(s))

\* a curate-post that hands the source URL to post_tweet
CurateQuoteUrlSource(item) == UrlOf(item.tweet_id)

\* the quote_url cmd_curate_post hands to post_tweet: it passes none
CurateQuoteUrl(item) == NoUrl

\* from verify_credentials to the start of the loop
CuratePostStart(credOk) ==
    /\ run.cmd = "none"
    /\ run' =
         IF ~credOk THEN Idle
         ELSE IF GetGenerated(pending) = <<>> THEN Idle
         ELSE IF limit - TodayPostedCount(processed, now) <= 0 THEN Idle
         ELSE [Idle EXCEPT !.cmd = "curate_post", !.pc = "item",
                           !.items = Take(GetGenerated(pending),
                                          limit - TodayPostedCount(processed, now))]
    /\ UNCHANGED storeVars
    /\ UNCHANGED <<auxVars, ov, mode, daily, wire, checked>>

ScoreTotal(item) == IF item.score = NoScore THEN 0 ELSE item.score[1]

\* one turn of the loop up to the call of post_tweet
CuratePostItem ==
    /\ run.cmd = "curate_post"
    /\ run.pc = "item"
    /\ IF run.items = <<>>
       THEN /\ run' = Idle
            /\ UNCHANGED checked
       ELSE /\ checked' = Check(Head(run.items).generated_text, TRUE)
            /\ run' =
                 IF ~checked'.is_safe \/ IntervalViolation(LastPostArg(lastPost))
                 THEN [run EXCEPT !.items = Tail(@)]
                 ELSE IF mode = "semi_auto" /\ ScoreTotal(Head(run.items)) < AutoPostMinScore
                      THEN [run EXCEPT !.items = Tail(@)]
                 ELSE [run EXCEPT !.pc = "send",
                                  !.text = Head(run.items).generated_text,
                                  !.quote_tweet_id = Head(run.items).tweet_id,
                                  !.quote_url = CurateQuoteUrl(Head(run.items)),
                                  !.attempt = 0]
    /\ UNCHANGED <<auxVars, ov, mode, daily, wire>>
    /\ UNCHANGED storeVars

\* post_tweet returned: queue.mark_posted(tweet_id, posted_tweet_id)
CuratePostMarkPosted ==
    /\ run.cmd = "curate_post"
    /\ run.pc = "returned"
    /\ pending' = MarkPostedPending(pending, run.quote_tweet_id)
    /\ processed' = MarkPostedProcessed(pending, processed, run.quote_tweet_id, run.result, now)
    /\ run' = [run EXCEPT !.pc = "item", !.items = Tail(@), !.result = Absent,
                           !.resp = "none"]
    /\ UNCHANGED <<feedback, now, lastOp, everDecided>>
    /\ UNCHANGED <<auxVars, ov, mode, daily, wire, checked>>

\* an error handler that marks the record posted all the same
CuratePostExceptMarks ==
    /\ run.cmd = "curate_post"
    /\ run.pc = "raised"
    /\ pending' = MarkPostedPending(pending, run.quote_tweet_id)
    /\ processed' = MarkPostedProcessed(pending, processed, run.quote_tweet_id, "", now)
    /\ run' = [run EXCEPT !.pc = "item", !.items = Tail(@), !.resp = "none"]
    /\ UNCHANGED <<feedback, now, lastOp, everDecided>>
    /\ UNCHANGED <<auxVars, ov, mode, daily, wire, checked>>

\* post_tweet raised: the error is reported and the loop goes on
CuratePostExcept ==
    /\ run.cmd = "curate_post"
    /\ run.pc = "raised"
    /\ run' = [run EXCEPT !.pc = "item", !.items = Tail(@), !.resp = "none"]
    /\ UNCHANGED storeVars
    /\ UNCHANGED <<auxVars, ov, mode, daily, wire, checked>>

\* --------------------------------------------------------------- cmd_post
NoDaily == [date |-> 0, posts |-> <<>>]
Slots == <<"morning", "noon">>
DailyTexts == {TextOk, TextNg}

\* save_daily_output(): today's file with the generated originals
SaveDailyOutput(texts) ==
    /\ run.cmd = "none"
    /\ daily' = [date |-> now,
                 posts |-> [i \in 1..Len(texts) |->
                              [slot |-> Slots[i], text |-> texts[i], posted |-> FALSE]]]
    /\ UNCHANGED storeVars
    /\ UNCHANGED <<auxVars, ov, mode, run, wire, checked>>

\* Scheduler.get_pending_posts(): the unposted posts of today's file
GetPendingPosts(d, clock) ==
    IF d.date # clock THEN <<>>
    ELSE Filter(d.posts, [i \in 1..Len(d.posts) |-> ~d.posts[i].posted])

PostStart(credOk) ==
    /\ run.cmd = "none"
    /\ run' =
         IF ~credOk THEN Idle
         ELSE IF GetPendingPosts(daily, now) = <<>> THEN Idle
         ELSE [Idle EXCEPT !.cmd = "post", !.pc = "item",
                           !.items = GetPendingPosts(daily, now)]
    /\ UNCHANGED storeVars
    /\ UNCHANGED <<auxVars, ov, mode, daily, wire, checked>>

\* one turn of the loop up to the call of post_tweet; inSlot is
\* Scheduler.should_post_now(post)
PostItem(inSlot) ==
    /\ run.cmd = "post"
    /\ run.pc = "item"
    /\ IF run.items = <<>>
       THEN /\ run' = Idle
            /\ UNCHANGED checked
       ELSE IF ~inSlot
       THEN /\ run' = [run EXCEPT !.items = Tail(@)]
            /\ UNCHANGED checked
       ELSE /\ checked' = Check(Head(run.items).text, FALSE)
            /\ run' =
                 IF ~checked'.is_safe THEN [run EXCEPT !.items = Tail(@)]
                 ELSE IF mode = "manual_approval" THEN [run EXCEPT !.items = Tail(@)]
                 ELSE IF mode = "semi_auto" /\ Head(run.items).text.score < AutoPostMinScore
                      THEN [run EXCEPT !.items = Tail(@)]
                 ELSE [run EXCEPT !.pc = "send",
                                  !.text = Head(run.items).text,
                                  !.quote_tweet_id = NoId,
                                  !.quote_url = NoUrl,
                                  !.attempt = 0]
    /\ UNCHANGED <<auxVars, ov, mode, daily, wire>>
    /\ UNCHANGED storeVars

\* Scheduler.mark_as_posted(): the first post of the slot is flagged
MarkAsPosted(d, slot) ==
    LET hits == {i \in 1..Len(d.posts) : d.posts[i].slot = slot}
        first == CHOOSE i \in hits : \A j \in hits : i <= j
    IN  IF hits = {} THEN d
        ELSE [d EXCEPT !.posts[first].posted = TRUE]

PostMarkAsPosted ==
    /\ run.cmd = "post"
    /\ run.pc = "returned"
    /\ daily' = MarkAsPosted(daily, Head(run.items).slot)
    /\ run' = [run EXCEPT !.pc = "item", !.items = Tail(@), !.result = Absent,
                           !.resp = "none"]
    /\ UNCHANGED storeVars
    /\ UNCHANGED <<auxVars, ov, mode, wire, checked>>

PostExcept ==
    /\ run.cmd = "post"
    /\ run.pc = "raised"
    /\ run' = [run EXCEPT !.pc = "item", !.items = Tail(@), !.resp = "none"]
    /\ UNCHANGED storeVars
    /\ UNCHANGED <<auxVars, ov, mode, daily, wire, checked>>

\* ------------------------------------------- overlapping curate-post runs
\* Two cmd_curate_post processes started by a cron host while the other is
\* still running.  Each keeps its own locals; the files are shared.
CpRuns == {1, 2}
CpIdle == [pc |-> "idle", items |-> <<>>, id |-> NoId, result |-> Absent, started |-> FALSE]
NoneSent == [t \in TweetIds |-> 0]

\* no curate-post run is between its first read and its last write
CpQuiet == \A p \in CpRuns : cp[p].pc \in {"idle", "done"} /\ ~cp[p].started

\* from verify_credentials to the start of the loop: get_generated() and
\* get_today_posted_count() read the files as they are now
CpStart(p, credOk) ==
    /\ run.cmd = "none"
    /\ cp[p].pc = "idle"
    /\ ~cp[p].started
    /\ cp' = [cp EXCEPT ![p] =
                IF ~credOk THEN [CpIdle EXCEPT !.pc = "done", !.started = TRUE]
                ELSE IF GetGenerated(pending) = <<>>
                     THEN [CpIdle EXCEPT !.pc = "done", !.started = TRUE]
                ELSE IF limit - TodayPostedCount(processed, now) <= 0
                     THEN [CpIdle EXCEPT !.pc = "done", !.started = TRUE]
                ELSE [CpIdle EXCEPT !.pc = "item", !.started = TRUE,
                                    !.items = Take(GetGenerated(pending),
                                                   limit - TodayPostedCount(processed, now))]]
    /\ UNCHANGED storeVars
    /\ UNCHANGED <<mode, daily, run, wire, checked, ov>>
    /\ UNCHANGED <<sent, plan, prefsFile, updater, remote, sync, extVars>>

\* one turn of the loop up to the call of post_tweet, on the list the run read
CpItem(p) ==
    /\ cp[p].pc = "item"
    /\ cp' = [cp EXCEPT ![p] =
                IF cp[p].items = <<>> THEN [@ EXCEPT !.pc = "done"]
                ELSE IF ~Check(Head(cp[p].items).generated_text, TRUE).is_safe
                     THEN [@ EXCEPT !.items = Tail(@)]
                ELSE IF mode = "semi_auto" /\ ScoreTotal(Head(cp[p].items)) < AutoPostMinScore
                     THEN [@ EXCEPT !.items = Tail(@)]
                ELSE [@ EXCEPT !.pc = "post", !.id = Head(cp[p].items).tweet_id]]
    /\ UNCHANGED storeVars
    /\ UNCHANGED <<mode, daily, run, wire, checked, ov>>
    /\ UNCHANGED <<sent, plan, prefsFile, updater, remote, sync, extVars>>

\* poster.post_tweet(text, quote_tweet_id) as a whole: the platform publishes
\* the quote and the call returns its id, or the call raises
CpPost(p, ok) ==
    /\ cp[p].pc = "post"
    /\ IF ok
       THEN /\ sent' = [sent EXCEPT ![cp[p].id] = @ + 1]
            /\ cp' = [cp EXCEPT ![p] = [@ EXCEPT !.pc = "returned", !.result = "p9"]]
       ELSE /\ sent' = sent
            /\ cp' = [cp EXCEPT ![p] = [@ EXCEPT !.pc = "item", !.items = Tail(@), !.id = NoId]]
    /\ UNCHANGED storeVars
    /\ UNCHANGED <<mode, daily, run, wire, checked, ov>>
    /\ UNCHANGED <<plan, prefsFile, updater, remote, sync, extVars>>

\* queue.mark_posted(tweet_id, posted_tweet_id) on the files as they are now
CpMarkPosted(p) ==
    /\ cp[p].pc = "returned"
    /\ pending' = MarkPostedPending(pending, cp[p].id)
    /\ processed' = MarkPostedProcessed(pending, processed, cp[p].id, cp[p].result, now)
    /\ cp' = [cp EXCEPT ![p] = [@ EXCEPT !.pc = "item", !.items = Tail(@),
                                         !.id = NoId, !.result = Absent]]
    /\ UNCHANGED <<feedback, now, lastOp, everDecided>>
    /\ UNCHANGED <<mode, daily, run, wire, checked, ov>>
    /\ UNCHANGED <<sent, plan, prefsFile, updater, remote, sync, extVars>>

\* ------------------------------------------------------------ Mix Planner
\* DEFAULT_SLOTS; slot_id n stands for "slot_0n"
DefaultSlots == <<
    [slot_id |-> 1,  base_hour |-> 7,  base_minute |-> 0,  jitter_min |-> 20, type_pool |-> {"original"}],
    [slot_id |-> 2,  base_hour |-> 8,  base_minute |-> 30, jitter_min |-> 25, type_pool |-> {"quote_rt"}],
    [slot_id |-> 3,  base_hour |-> 10, base_minute |-> 15, jitter_min |-> 20, type_pool |-> {"quote_rt"}],
    [slot_id |-> 4,  base_hour |-> 12, base_minute |-> 0,  jitter_min |-> 20, type_pool |-> {"original"}],
    [slot_id |-> 5,  base_hour |-> 14, base_minute |-> 15, jitter_min |-> 20, type_pool |-> {"quote_rt"}],
    [slot_id |-> 6,  base_hour |-> 16, base_minute |-> 0,  jitter_min |-> 25, type_pool |-> {"quote_rt"}],
    [slot_id |-> 7,  base_hour |-> 18, base_minute |-> 0,  jitter_min |-> 20, type_pool |-> {"quote_rt"}],
    [slot_id |-> 8,  base_hour |-> 19, base_minute |-> 45, jitter_min |-> 15, type_pool |-> {"original"}],
    [slot_id |-> 9,  base_hour |-> 21, base_minute |-> 0,  jitter_min |-> 20, type_pool |-> {"quote_rt"}],
    [slot_id |-> 10, base_hour |-> 22, base_minute |-> 30, jitter_min |-> 25, type_pool |-> {"quote_rt", "original"}] >>

MinIntervalMinutes == 60
DailyTotalMin == 7
DailyTotalMax == 10
\* quote_rt_ratio_max = 0.7, in tenths
QuoteRatioMaxTenths == 7
MaxConsecutiveQuotes == 2
NoLimit == 99

Min2(a, b) == IF a < b THEN a ELSE b
Max2(a, b) == IF a > b THEN a ELSE b

\* a field of a phase of warmup_schedule: <<>> when the key is missing
PhaseGet(phase, key, default) == IF phase[key] = <<>> THEN default ELSE phase[key][1]
EmptyPhase == [daily_quotes |-> <<>>, daily_originals |-> <<>>]
\* rules without a warmup_schedule
NoSchedule == [present |-> FALSE, week_0 |-> EmptyPhase, week_1 |-> EmptyPhase,
               week_2 |-> EmptyPhase, week_3 |-> EmptyPhase, week_4_plus |-> EmptyPhase]
\* a warmup_schedule whose phases leave the counts to the defaults of the code
DefaultSchedule == [NoSchedule EXCEPT !.present = TRUE]
\* a warmup_schedule whose first phase allows one original, or two, a day
TightSchedule(n) ==
    [DefaultSchedule EXCEPT !.week_0 = [daily_quotes |-> <<0>>, daily_originals |-> <<n>>]]

FullLimits == [daily_quotes |-> NoLimit, daily_originals |-> NoLimit, phase |-> "full"]
\* account_start_date: "" or a date, given here by the days elapsed since
NoStartDate == <<>>

\* get_warmup_limits(account_start_date)
GetWarmupLimits(start, warmup) ==
    IF start = NoStartDate THEN FullLimits
    ELSE IF ~warmup.present THEN FullLimits
    ELSE LET elapsed_days == start[1] IN
         IF elapsed_days < 4 THEN
            [daily_quotes |-> PhaseGet(warmup.week_0, "daily_quotes", 0),
             daily_originals |-> PhaseGet(warmup.week_0, "daily_originals", 3), phase |-> "week_0"]
         ELSE IF elapsed_days < 8 THEN
            [daily_quotes |-> PhaseGet(warmup.week_1, "daily_quotes", 1),
             daily_originals |-> PhaseGet(warmup.week_1, "daily_originals", 3), phase |-> "week_1"]
         ELSE IF elapsed_days < 15 THEN
            [daily_quotes |-> PhaseGet(warmup.week_2, "daily_quotes", 2),
             daily_originals |-> PhaseGet(warmup.week_2, "daily_originals", 5), phase |-> "week_2"]
         ELSE IF elapsed_days < 22 THEN
            [daily_quotes |-> PhaseGet(warmup.week_3, "daily_quotes", 4),
             daily_originals |-> PhaseGet(warmup.week_3, "daily_originals", 4), phase |-> "week_3"]
         ELSE
            [daily_quotes |-> PhaseGet(warmup.week_4_plus, "daily_quotes", 7),
             daily_originals |-> PhaseGet(warmup.week_4_plus, "daily_originals", 3), phase |-> "week_4+"]

\* effective_max and effective_min of plan_daily
EffectiveMax(limits) == Min2(DailyTotalMax, limits.daily_quotes + limits.daily_originals)
EffectiveMin(limits) == Min2(DailyTotalMin, EffectiveMax(limits))
\* _random_daily_count: every count of the range has a positive weight
RandomDailyCount(min_count, max_count) == min_count..max_count

\* the slots between the first and the last: DEFAULT_SLOTS[1:-1]
MiddleSlots == 2..(Len(DefaultSlots) - 1)
\* the length of remaining[:k], a Python slice: a negative k counts from the end
SliceLen(len, k) == IF k >= 0 THEN Min2(k, len) ELSE Max2(len + k, 0)
BaseMinuteOf(i) == DefaultSlots[i].base_hour * 60 + DefaultSlots[i].base_minute
\* selected.sort(key = (base_hour, base_minute)) over a set of slot indices
RECURSIVE SortByBase(_)
SortByBase(S) ==
    IF S = {} THEN <<>>
    ELSE LET first == CHOOSE i \in S :
                         \A j \in S : BaseMinuteOf(i) < BaseMinuteOf(j)
                                      \/ (BaseMinuteOf(i) = BaseMinuteOf(j) /\ i <= j)
         IN <<DefaultSlots[first]>> \o SortByBase(S \ {first})
\* _select_slots(count): the results the shuffle can give
SelectSlots(count) ==
    IF count >= Len(DefaultSlots) THEN {DefaultSlots}
    ELSE {SortByBase({1, Len(DefaultSlots)} \cup M) :
            M \in {X \in SUBSET MiddleSlots :
                     Cardinality(X) = SliceLen(Cardinality(MiddleSlots), count - 2)}}

\* a quota that forgets the candidates that are available
MaxQuotesRatioOnly(n, available_quotes) == (n * QuoteRatioMaxTenths) \div 10

\* max_quotes = min(int(len(slots) * quote_rt_ratio_max), available_quotes);
\* for 0..10 slots the float product truncates to the exact floor
MaxQuotes(n, available_quotes) ==
    Min2((n * QuoteRatioMaxTenths) \div 10, available_quotes)

\* plan[-max_consecutive:]
RecentTypes(acc) ==
    SubSeq(acc, Max2(1, Len(acc) - MaxConsecutiveQuotes + 1), Len(acc))

\* a streak test that lets one more quote through
ForcedOriginalLate(acc) ==
    LET recent == RecentTypes(acc) IN
    /\ recent # <<>>
    /\ \A i \in 1..Len(recent) : recent[i].type = "quote_rt"
    /\ Len(recent) > MaxConsecutiveQuotes

\* consecutive_quotes and len(recent_types) >= max_consecutive
ForcedOriginal(acc) ==
    LET recent == RecentTypes(acc) IN
    /\ recent # <<>>
    /\ \A i \in 1..Len(recent) : recent[i].type = "quote_rt"
    /\ Len(recent) >= MaxConsecutiveQuotes

WithType(slot, t) ==
    [slot_id |-> slot.slot_id, base_hour |-> slot.base_hour, base_minute |-> slot.base_minute,
     jitter_min |-> slot.jitter_min, type_pool |-> slot.type_pool, type |-> t,
     scheduled_hour |-> 0, scheduled_minute |-> 0]

\* the loop of _assign_types from slot i on
RECURSIVE AssignFrom(_, _, _, _, _)
AssignFrom(slots, i, acc, quote_count, max_quotes) ==
    IF i > Len(slots) THEN acc
    ELSE LET post_type ==
                 IF ForcedOriginal(acc) THEN "original"
                 ELSE IF "quote_rt" \in slots[i].type_pool /\ quote_count < max_quotes
                      THEN "quote_rt"
                 ELSE "original"
         IN AssignFrom(slots, i + 1, Append(acc, WithType(slots[i], post_type)),
                       IF post_type = "quote_rt" THEN quote_count + 1 ELSE quote_count,
                       max_quotes)

\* _assign_types(slots, available_quotes)
AssignTypes(slots, available_quotes) ==
    AssignFrom(slots, 1, <<>>, 0, MaxQuotes(Len(slots), available_quotes))

\* a jitter that is added to the minute and left as it comes out
RandomizeTimeNoCarry(item, jitter) ==
    [item EXCEPT !.scheduled_hour = item.base_hour,
                 !.scheduled_minute = item.base_minute + jitter]

\* one turn of _randomize_times: carry into the hour, then clamp
RandomizeTime(item, jitter) ==
    LET minute0 == item.base_minute + jitter
        hour1 == IF minute0 < 0 THEN item.base_hour - 1
                 ELSE IF minute0 >= 60 THEN item.base_hour + 1 ELSE item.base_hour
        minute1 == IF minute0 < 0 THEN minute0 + 60
                   ELSE IF minute0 >= 60 THEN minute0 - 60 ELSE minute0
    IN [item EXCEPT !.scheduled_hour = Max2(6, Min2(23, hour1)),
                    !.scheduled_minute = Max2(0, Min2(59, minute1))]

\* the draws random.randint(-jitter_min, jitter_min) can give, on a grid
JitterSteps == 1
JitterOf(item, k) == (k * 2 * item.jitter_min) \div JitterSteps - item.jitter_min

MinuteOfDay(item) == item.scheduled_hour * 60 + item.scheduled_minute

\* a sweep that only repairs slots that come before their predecessor
NeedsPushOrderOnly(diff) == diff < 0

\* diff < MIN_INTERVAL_MINUTES
NeedsPush(diff) == diff < MinIntervalMinutes

\* the loop of _enforce_min_interval from slot i on
RECURSIVE EnforceFrom(_, _)
EnforceFrom(p, i) ==
    IF i > Len(p) THEN p
    ELSE LET prev_time == MinuteOfDay(p[i - 1])
             curr_time == MinuteOfDay(p[i])
             new_minute == prev_time + MinIntervalMinutes
         IN IF NeedsPush(curr_time - prev_time)
            THEN EnforceFrom([p EXCEPT ![i].scheduled_hour = new_minute \div 60,
                                       ![i].scheduled_minute = new_minute % 60], i + 1)
            ELSE EnforceFrom(p, i + 1)

\* _enforce_min_interval(plan)
EnforceMinInterval(p) == EnforceFrom(p, 2)

\* before: the plan as _randomize_times left it
NoPlan == [pc |-> "none", limits |-> FullLimits, available_quotes |-> 0,
           daily_count |-> 0, items |-> <<>>, before |-> <<>>]

\* the calls of plan_daily: available_quotes, account_start_date and the
\* warmup_schedule of the rules file
AvailableChoices == {0, 2, 10}
PlanCalls ==
    {<<NoStartDate, DefaultSchedule>>, <<<<3>>, NoSchedule>>}
    \cup {<<<<d>>, DefaultSchedule>> : d \in {3, 7, 14, 21, 22}}
    \cup {<<<<3>>, TightSchedule(n)>> : n \in {1, 2}}

\* plan_daily up to _select_slots
PlanSelectSlots(call, available_quotes) ==
    /\ plan.pc = "none"
    /\ LET limits == GetWarmupLimits(call[1], call[2]) IN
       \E daily_count \in RandomDailyCount(EffectiveMin(limits), EffectiveMax(limits)) :
       \E slots \in SelectSlots(daily_count) :
          plan' = [pc |-> "selected", limits |-> limits,
                   available_quotes |-> available_quotes,
                   daily_count |-> daily_count, items |-> slots, before |-> <<>>]
    /\ UNCHANGED storeVars
    /\ UNCHANGED <<mode, daily, run, wire, checked, ov>>
    /\ UNCHANGED <<cp, sent, prefsFile, updater, remote, sync, extVars>>

\* effective_quotes = min(available_quotes, max_quotes_warmup); _assign_types
PlanAssignTypes ==
    /\ plan.pc = "selected"
    /\ plan' = [plan EXCEPT !.pc = "typed",
                  !.items = AssignTypes(plan.items,
                               Min2(plan.available_quotes, plan.limits.daily_quotes))]
    /\ UNCHANGED storeVars
    /\ UNCHANGED <<mode, daily, run, wire, checked, ov>>
    /\ UNCHANGED <<cp, sent, prefsFile, updater, remote, sync, extVars>>

\* _randomize_times(plan)
PlanRandomizeTimes(ks) ==
    /\ plan.pc = "typed"
    /\ LET timed == [i \in 1..Len(plan.items) |->
                        RandomizeTime(plan.items[i], JitterOf(plan.items[i], ks[i]))]
       IN plan' = [plan EXCEPT !.pc = "jittered", !.items = timed, !.before = timed]
    /\ UNCHANGED storeVars
    /\ UNCHANGED <<mode, daily, run, wire, checked, ov>>
    /\ UNCHANGED <<cp, sent, prefsFile, updater, remote, sync, extVars>>

\* _enforce_min_interval(plan); return plan
PlanEnforceMinInterval ==
    /\ plan.pc = "jittered"
    /\ plan' = [plan EXCEPT !.pc = "done", !.items = EnforceMinInterval(plan.items)]
    /\ UNCHANGED storeVars
    /\ UNCHANGED <<mode, daily, run, wire, checked, ov>>
    /\ UNCHANGED <<cp, sent, prefsFile, updater, remote, sync, extVars>>

\* ------------------------------------------------------ PreferenceUpdater
\* Weights are counted in hundredths: 2.8 is 280.
MinDecisionsForAdjust == 10
PromoteThresholdPct == 80
DemoteThresholdPct == 30
MaxWeightChange == 50
BoostStep == 20
ReduceStep == 30
MaxWeight == 300
DefaultWeight == 100
DefaultVersion == 1

Keywords == {"agent", "llm"}
Accounts == {"acct"}
Topics == {"topic"}

\* a value of a JSON object that may lack the key: <<>> or <<value>>
Missing == <<>>
GetOr(x, default) == IF x = Missing THEN default ELSE x[1]

\* the file does not exist: _load_data leaves _prefs = {}
NoPrefsFile == [version |-> Missing, keyword_weights |-> [k \in Keywords |-> Missing],
                boosted |-> {}, preferred |-> {}, avoid |-> {}, updated_by |-> ""]

\* by_keyword, by_source and by_topic counters of the feedback file
NoStat == [approved |-> 0, skipped |-> 0]
\* count >= MIN_DECISIONS_FOR_ADJUST and rate >= PROMOTE_THRESHOLD
IsPromote(st) ==
    /\ st.approved + st.skipped >= MinDecisionsForAdjust
    /\ st.approved * 100 >= PromoteThresholdPct * (st.approved + st.skipped)
\* elif rate <= DEMOTE_THRESHOLD
IsDemote(st) ==
    /\ st.approved + st.skipped >= MinDecisionsForAdjust
    /\ ~IsPromote(st)
    /\ st.approved * 100 <= DemoteThresholdPct * (st.approved + st.skipped)

\* round(new_val, 1): to the nearest tenth; at a tie the binary value of the
\* float decides, so either neighbour can come out
RoundTenth(h, tieUp) ==
    LET r == h % 10 IN
    IF r < 5 THEN h - r
    ELSE IF r > 5 THEN h + (10 - r)
    ELSE IF tieUp THEN h + 5 ELSE h - 5

\* a boost that forgets the ceiling of 3.0
BoostedWeightNoCeiling(current) == Min2(current + BoostStep, current + MaxWeightChange)

\* new_val = min(current + 0.2, current + MAX_WEIGHT_CHANGE, 3.0)
BoostedWeight(current) ==
    Min2(Min2(current + BoostStep, current + MaxWeightChange), MaxWeight)

\* new_val = max(current - 0.3, current - MAX_WEIGHT_CHANGE, 0.0)
ReducedWeight(current) ==
    Max2(Max2(current - ReduceStep, current - MaxWeightChange), 0)

\* the keyword loops of auto_update: the entry kw_weights holds afterwards
KeywordAfter(entry, st, tieUp) ==
    LET current == GetOr(entry, DefaultWeight) IN
    IF IsPromote(st) THEN
         IF BoostedWeight(current) # current
         THEN <<RoundTenth(BoostedWeight(current), tieUp)>> ELSE entry
    ELSE IF IsDemote(st) THEN
         IF ReducedWeight(current) # current
         THEN <<RoundTenth(ReducedWeight(current), tieUp)>> ELSE entry
    ELSE entry
KeywordChanged(entry, st) ==
    LET current == GetOr(entry, DefaultWeight) IN
    \/ IsPromote(st) /\ BoostedWeight(current) # current
    \/ IsDemote(st) /\ ReducedWeight(current) # current

\* the account loops: the boosted set afterwards
BoostedAfter(boosted, src) ==
    (boosted \cup {u \in Accounts : IsPromote(src[u])})
        \ {u \in Accounts : IsDemote(src[u])}
\* the topic loops: preferred and avoid afterwards
PreferredAfter(preferred, avoid, tp) ==
    (preferred \cup {t \in Topics : IsPromote(tp[t])}) \ {t \in Topics : IsDemote(tp[t])}
AvoidAfter(preferred, avoid, tp) ==
    (avoid \ {t \in Topics : IsPromote(tp[t])}) \cup {t \in Topics : IsDemote(tp[t])}

\* the in-memory document once auto_update has adjusted it and stamped it
AdjustedPrefs(prefs, fb, tieUp) ==
    [version |-> <<GetOr(prefs.version, DefaultVersion) + 1>>,
     keyword_weights |-> [k \in Keywords |->
                            KeywordAfter(prefs.keyword_weights[k], fb.by_keyword[k], tieUp[k])],
     boosted |-> BoostedAfter(prefs.boosted, fb.by_source),
     preferred |-> PreferredAfter(prefs.preferred, prefs.avoid, fb.by_topic),
     avoid |-> AvoidAfter(prefs.preferred, prefs.avoid, fb.by_topic),
     updated_by |-> "auto_pdca"]

\* changes is not empty
HasChanges(prefs, fb) ==
    \/ \E k \in Keywords : KeywordChanged(prefs.keyword_weights[k], fb.by_keyword[k])
    \/ BoostedAfter(prefs.boosted, fb.by_source) # prefs.boosted
    \/ PreferredAfter(prefs.preferred, prefs.avoid, fb.by_topic) # prefs.preferred
    \/ AvoidAfter(prefs.preferred, prefs.avoid, fb.by_topic) # prefs.avoid

NoFeedbackStats == [total |-> 0, by_keyword |-> [k \in Keywords |-> NoStat],
                    by_source |-> [u \in Accounts |-> NoStat],
                    by_topic |-> [t \in Topics |-> NoStat]]
\* last: the latest auto_update call, its arguments and what it found
NoUpdateCall == [dry_run |-> FALSE, persisted |-> FALSE, skipped |-> FALSE,
                 before |-> NoPrefsFile, file_before |-> NoPrefsFile]
NoUpdater == [loaded |-> FALSE, prefs |-> NoPrefsFile, fb |-> NoFeedbackStats,
              calls |-> 0, last |-> NoUpdateCall]

\* the documents config/selection_preferences.json can hold at the start
StartWeights == {Missing, <<5>>, <<280>>, <<295>>, <<360>>}
StartDocs ==
    {[version |-> v, keyword_weights |-> w, boosted |-> b, preferred |-> p[1],
      avoid |-> p[2], updated_by |-> "remote_sync"] :
        v \in {Missing, <<1>>}, w \in [Keywords -> StartWeights],
        b \in SUBSET Accounts, p \in {<<{}, {}>>, <<Topics, {}>>, <<{}, Topics>>}}
\* the counters the feedback file can hold when the updater reads it
KeywordStats == {[approved |-> 19, skipped |-> 1], [approved |-> 3, skipped |-> 7],
                 [approved |-> 9, skipped |-> 0]}
OtherStats == {[approved |-> 8, skipped |-> 2], [approved |-> 3, skipped |-> 7],
               [approved |-> 5, skipped |-> 5]}
FeedbackStats ==
    {[NoFeedbackStats EXCEPT !.total = 9]}
    \cup {[total |-> 20, by_keyword |-> k, by_source |-> s, by_topic |-> t] :
            k \in [Keywords -> KeywordStats], s \in [Accounts -> OtherStats],
            t \in [Topics -> OtherStats]}
\* the auto_update calls made on one instance
MaxUpdates == 2

\* the preferences file as the operator or the remote sync left it
PrefsWritten(doc) ==
    /\ ~updater.loaded
    /\ prefsFile = NoPrefsFile
    /\ prefsFile' = doc
    /\ UNCHANGED storeVars
    /\ UNCHANGED <<mode, daily, run, wire, checked, ov>>
    /\ UNCHANGED <<cp, sent, plan, updater, remote, sync, extVars>>

\* PreferenceUpdater(): _load_data reads both files
UpdaterInit(fb) ==
    /\ ~updater.loaded
    /\ updater' = [NoUpdater EXCEPT !.loaded = TRUE, !.prefs = prefsFile, !.fb = fb]
    /\ UNCHANGED storeVars
    /\ UNCHANGED <<mode, daily, run, wire, checked, ov>>
    /\ UNCHANGED <<cp, sent, plan, prefsFile, remote, sync, extVars>>

\* auto_update(dry_run)
AutoUpdate(dry_run, tieUp) ==
    /\ updater.loaded
    /\ updater.calls < MaxUpdates
    /\ IF updater.fb.total < MinDecisionsForAdjust
       THEN /\ updater' = [updater EXCEPT !.calls = @ + 1,
                              !.last = [dry_run |-> dry_run, persisted |-> FALSE,
                                        skipped |-> TRUE, before |-> updater.prefs,
                                        file_before |-> prefsFile]]
            /\ prefsFile' = prefsFile
       ELSE LET adjusted == AdjustedPrefs(updater.prefs, updater.fb, tieUp)
                save == ~dry_run /\ HasChanges(updater.prefs, updater.fb)
            IN /\ updater' = [updater EXCEPT !.calls = @ + 1, !.prefs = adjusted,
                                 !.last = [dry_run |-> dry_run, persisted |-> save,
                                           skipped |-> FALSE, before |-> updater.prefs,
                                           file_before |-> prefsFile]]
               /\ prefsFile' = IF save THEN adjusted ELSE prefsFile
    /\ UNCHANGED storeVars
    /\ UNCHANGED <<mode, daily, run, wire, checked, ov>>
    /\ UNCHANGED <<cp, sent, plan, remote, sync, extVars>>

\* ------------------------------------------------- Firestore decision sync
\* (src/firestore/firebase_sync.py, src/firestore/firestore_client.py)
MaxDecisions == 2
Uids == {1, 2}
\* uid = "": every user
AllUsers == 0
\* the uid argument: the commands pass none, a caller may name one user
SyncUidArgs == {AllUsers, 1}
\* a decision document's action; "hold" stands for any other word
DecisionActions == {"approve", "skip", "hold", ""}

NoSyncResult ==
    [ran |-> FALSE, approved |-> 0, skipped |-> 0, not_found |-> 0, errors |-> 0,
     processed |-> {}, deleted |-> {}, mutated |-> FALSE]

\* written: decision documents written so far; applied[n]: how often the
\* n-th of them made approve or skip_with_reason return True; last: the
\* result of the latest run, with the documents it applied and deleted and
\* whether it changed the queue or the feedback file
NoSync ==
    [written |-> 0, applied |-> [n \in 1..MaxDecisions |-> 0], last |-> NoSyncResult]

\* the dashboard sets users/{uid}/queue_decisions/{tweet_id}
DecisionWritten(uid, t, action, reason) ==
    /\ sync.written < MaxDecisions
    /\ remote' = {d \in remote : ~(d.uid = uid /\ d.tweet_id = t)}
                   \cup {[uid |-> uid, tweet_id |-> t, action |-> action,
                          skip_reason |-> reason, n |-> sync.written + 1]}
    /\ sync' = [sync EXCEPT !.written = @ + 1]
    /\ UNCHANGED storeVars
    /\ UNCHANGED <<mode, daily, run, wire, checked, ov>>
    /\ UNCHANGED <<cp, sent, plan, prefsFile, updater, extVars>>

\* get_queue_decisions(): the documents of one user, or of every user in
\* turn, each with tweet_id = doc.id
RECURSIVE DecisionSeq(_)
DecisionSeq(S) ==
    IF S = {} THEN <<>>
    ELSE LET d == CHOOSE x \in S : \A y \in S :
                      x.uid < y.uid \/ (x.uid = y.uid /\ x.tweet_id <= y.tweet_id)
         IN <<d>> \o DecisionSeq(S \ {d})

GetQueueDecisions(docs, uid) ==
    DecisionSeq(IF uid = AllUsers THEN docs ELSE {d \in docs : d.uid = uid})

\* the loop's locals before the first decision
SyncStart(pend, fb) ==
    [pend |-> pend, fb |-> fb, approved |-> 0, skipped |-> 0, not_found |-> 0,
     errors |-> 0, processed |-> {}]

\* one turn of the loop over the decisions
SyncOne(st, d) ==
    IF d.action = "" THEN [st EXCEPT !.errors = @ + 1]
    ELSE IF d.action = "approve" THEN
        IF FirstIndex(st.pend, d.tweet_id) # 0
        THEN [st EXCEPT !.pend = ApproveResult(st.pend, d.tweet_id),
                        !.fb = ApproveFeedback(st.fb, st.pend, d.tweet_id),
                        !.approved = @ + 1,
                        !.processed = @ \cup {d}]
        ELSE [st EXCEPT !.not_found = @ + 1]
    ELSE IF d.action = "skip" THEN
        IF FirstIndex(st.pend, d.tweet_id) # 0
        THEN [st EXCEPT !.pend = SkipResult(st.pend, d.tweet_id, d.skip_reason),
                        !.fb = SkipFeedback(st.fb, st.pend, d.tweet_id, d.skip_reason),
                        !.skipped = @ + 1,
                        !.processed = @ \cup {d}]
        ELSE [st EXCEPT !.not_found = @ + 1]
    ELSE [st EXCEPT !.errors = @ + 1]

RECURSIVE SyncLoop(_, _)
SyncLoop(st, ds) ==
    IF ds = <<>> THEN st ELSE SyncLoop(SyncOne(st, Head(ds)), Tail(ds))

\* mark_decisions_processed() per uid: the batch deletes the documents of
\* the processed tweet_ids, or raises and deletes none (deleteOk[uid] false)
MarkDecisionsProcessed(docs, done, deleteOk) ==
    {d \in docs : ~(deleteOk[d.uid]
                     /\ \E p \in done : p.uid = d.uid /\ p.tweet_id = d.tweet_id)}

\* sync_queue_decisions(uid): read, apply in order, delete what was applied;
\* an exception of the deletion is appended to result["errors"]
SyncQueueDecisions(uid, deleteOk) ==
    LET ds == GetQueueDecisions(remote, uid)
        st == SyncLoop(SyncStart(pending, feedback), ds)
        failed == {u \in Uids : ~deleteOk[u] /\ \E p \in st.processed : p.uid = u}
    IN /\ FeedbackRoom(Len(ds))
       /\ pending' = st.pend
       /\ feedback' = st.fb
       /\ remote' = IF ds = <<>> THEN remote
                    ELSE MarkDecisionsProcessed(remote, st.processed, deleteOk)
       /\ sync' = [sync EXCEPT
                     !.applied = [n \in 1..MaxDecisions |->
                                    IF \E p \in st.processed : p.n = n THEN @[n] + 1 ELSE @[n]],
                     !.last = [ran |-> TRUE, approved |-> st.approved,
                               skipped |-> st.skipped, not_found |-> st.not_found,
                               errors |-> st.errors + Cardinality(failed),
                               processed |-> {d.n : d \in st.processed},
                               deleted |-> {d.n : d \in remote \ remote'},
                               mutated |-> pending' # pending \/ feedback' # feedback]]
       /\ lastOp' = Call("sync_queue_decisions", 0, "", st.processed # {}, "none")
       /\ Track
       /\ UNCHANGED <<processed, now>>
       /\ UNCHANGED <<mode, daily, run, wire, checked, ov>>
       /\ UNCHANGED <<cp, sent, plan, prefsFile, updater, extVars>>

\* ------------------------------------------------------ process-operations
\* (src/main.py cmd_process_operations, src/firestore/firestore_client.py)
MaxOps == 2
OpIds == 1..MaxOps
\* command and tweet_url of a request: "collect" stands for the commands run
\* as "python -m src.main <cmd>", "other" for any other word
OpKinds == {"add-tweet", "add-tweet-no-url", "collect", "other"}
\* how the subprocess ends
OpOutcomes == {"ok", "nonzero", "timeout"}

NoOps == [o \in OpIds |-> [status |-> "none", kind |-> "other", tweet_url |-> NoId]]

NoPoRun ==
    [pc |-> "idle", list |-> <<>>, i |-> 0, marked |-> {}, aborted |-> FALSE,
     moves |-> {}]

\* the dashboard adds a request document with status pending; tweet_url
\* names the tweet of an add-tweet request
OperationRequested(o, kind, t) ==
    /\ ops[o].status = "none"
    /\ \A q \in OpIds : q < o => ops[q].status # "none"
    /\ (kind = "add-tweet") = (t # NoId)
    /\ ops' = [ops EXCEPT ![o] = [status |-> "pending", kind |-> kind,
                                  tweet_url |-> t]]
    /\ UNCHANGED <<po, disk, io, retry, urlv, limit, lastPost, generator, qf, por>>
    /\ UNCHANGED storeVars
    /\ UNCHANGED <<mode, daily, run, wire, checked, ov>>
    /\ UNCHANGED <<cp, sent, plan, prefsFile, updater, remote, sync>>

\* get_pending_operations(): status == pending, ordered by requested_at
RECURSIVE PendingOperations(_, _)
PendingOperations(docs, o) ==
    IF o > MaxOps THEN <<>>
    ELSE (IF docs[o].status = "pending" THEN <<o>> ELSE <<>>)
           \o PendingOperations(docs, o + 1)

\* update_operation_status(): the document's status is overwritten
UpdateOperationStatus(docs, o, status) == [docs EXCEPT ![o].status = status]

\* the status a request gets when its command has run
SettledStatus(kind, outcome) ==
    IF kind = "add-tweet-no-url" \/ kind = "other" THEN "failed"
    ELSE IF outcome = "ok" THEN "completed" ELSE "failed"

Moved(o, to) == po.moves \cup {<<ops[o].status, to>>}

\* cmd_process_operations up to the loop: nothing pending, the run returns
PoStart ==
    /\ po.pc = "idle"
    /\ LET list == PendingOperations(ops, 1)
       IN po' = IF list = <<>> THEN [NoPoRun EXCEPT !.moves = po.moves]
                ELSE [pc |-> "mark", list |-> list, i |-> 1, marked |-> {},
                      aborted |-> FALSE, moves |-> po.moves]
    /\ UNCHANGED <<ops, disk, io, retry, urlv, limit, lastPost, generator, qf, por>>
    /\ UNCHANGED storeVars
    /\ UNCHANGED <<mode, daily, run, wire, checked, ov>>
    /\ UNCHANGED <<cp, sent, plan, prefsFile, updater, remote, sync>>

\* fc.update_operation_status(doc_id, "running", uid=op_uid)
PoMarkRunning ==
    /\ po.pc = "mark"
    /\ LET o == po.list[po.i]
       IN /\ ops' = UpdateOperationStatus(ops, o, "running")
          /\ po' = [po EXCEPT !.pc = "creds", !.marked = @ \cup {o},
                              !.moves = Moved(o, "running")]
    /\ UNCHANGED <<disk, io, retry, urlv, limit, lastPost, generator, qf, por>>
    /\ UNCHANGED storeVars
    /\ UNCHANGED <<mode, daily, run, wire, checked, ov>>
    /\ UNCHANGED <<cp, sent, plan, prefsFile, updater, remote, sync>>

\* fc.get_user_x_credentials / fc.get_api_keys, outside the try block: an
\* exception of the read ends the run
PoCredentials(readOk) ==
    /\ po.pc = "creds"
    /\ po' = IF readOk THEN [po EXCEPT !.pc = "exec"]
             ELSE [po EXCEPT !.pc = "idle", !.aborted = TRUE]
    /\ UNCHANGED <<ops, disk, io, retry, urlv, limit, lastPost, generator, qf, por>>
    /\ UNCHANGED storeVars
    /\ UNCHANGED <<mode, daily, run, wire, checked, ov>>
    /\ UNCHANGED <<cp, sent, plan, prefsFile, updater, remote, sync>>

\* the add-tweet branch on the queue: "add_tweet.py <url>" runs and, when it
\* returns 0, "add_tweet.py --approve-all"; a subprocess killed by the
\* timeout has added the record or has not
AddTweetQueues(pend, proc, t, outcome) ==
    IF outcome = "ok" THEN {ApproveAllResult(AddResult(pend, proc, t))}
    ELSE IF outcome = "nonzero" THEN {pend}
    ELSE {pend, AddResult(pend, proc, t)}

\* the try block: the command runs and the request is marked completed or
\* failed, in the block or in one of its except clauses
PoExecute(outcome) ==
    /\ po.pc = "exec"
    /\ LET o == po.list[po.i]
           to == SettledStatus(ops[o].kind, outcome)
       IN /\ ops' = UpdateOperationStatus(ops, o, to)
          /\ po' = [po EXCEPT !.pc = IF po.i < Len(po.list) THEN "mark" ELSE "idle",
                              !.i = IF po.i < Len(po.list) THEN @ + 1 ELSE @,
                              !.moves = Moved(o, to)]
          /\ pending' \in IF ops[o].kind = "add-tweet"
                           THEN AddTweetQueues(pending, processed, ops[o].tweet_url,
                                               outcome)
                           ELSE {pending}
    /\ UNCHANGED <<disk, io, retry, urlv, limit, lastPost, generator, qf, por>>
    /\ UNCHANGED <<processed, feedback, now, lastOp, everDecided>>
    /\ UNCHANGED <<mode, daily, run, wire, checked, ov>>
    /\ UNCHANGED <<cp, sent, plan, prefsFile, updater, remote, sync>>

\* ------------------------------------------------------- JSON file helpers
\* (src/utils.py safe_json_load, atomic_json_save)
\* A file is a path bound to an inode; an inode holds the chunks written to
\* it. json.dump reaches the file in chunks as the buffer of the text file
\* fills; a document is two chunks here, the empty list one.
MaxInodes == 5
Inodes == 1..MaxInodes
NoFile == 0
DataA == <<"a1", "a2">>
DataB == <<"b1", "b2">>
EmptyList == <<"[]">>
Corrupt == <<"{bad">>
Documents == {DataA, DataB, EmptyList}
\* json.load succeeds on the content
Parses(c) == c \in Documents

NoDisk ==
    [main |-> NoFile, bak |-> NoFile, tmp |-> NoFile, data |-> [n \in Inodes |-> <<>>]]

\* content of the file at a path (<<>> for a missing one, see Exists)
ContentOf(d, path) == IF d[path] = NoFile THEN <<>> ELSE d.data[d[path]]
Exists(d, path) == d[path] # NoFile

Referenced(d, fds) == {d.main, d.bak, d.tmp} \cup fds
FreeInode(d, fds) == CHOOSE n \in Inodes : n \notin Referenced(d, fds)
                        /\ \A m \in Inodes : m \notin Referenced(d, fds) => n <= m

\* an inode no path and no open file refers to is gone
Reclaim(d, fds) ==
    [d EXCEPT !.data = [n \in Inodes |-> IF n \in Referenced(d, fds) THEN @[n] ELSE <<>>]]

\* open(path, "w"): the file at the path is truncated, or created
OpenForWrite(d, path, fds) ==
    IF Exists(d, path) THEN [d EXCEPT !.data[d[path]] = <<>>]
    ELSE [d EXCEPT ![path] = FreeInode(d, fds), !.data[FreeInode(d, fds)] = <<>>]

\* write(): the chunk lands at the offset of the open file
WriteAt(content, off, chunk) ==
    [i \in 1..(IF off + 1 > Len(content) THEN off + 1 ELSE Len(content)) |->
        IF i = off + 1 THEN chunk
        ELSE IF i <= Len(content) THEN content[i] ELSE "0"]

\* a file written with open(path, "w") ... close() by one process alone
WriteWhole(d, path, content, fds) ==
    LET o == OpenForWrite(d, path, fds)
    IN [o EXCEPT !.data[o[path]] = content]

\* shutil.copy2(path, backup_path)
CopyToBackup(d, fds) == WriteWhole(d, "bak", ContentOf(d, "main"), fds)

\* tmp_path.replace(path): the target path now names the inode of the tmp
\* path, in one step
ReplaceTarget(d, fds) == Reclaim([d EXCEPT !.main = d.tmp, !.tmp = NoFile], fds)

\* atomic_json_save(path, data) run by one process with no other at work
AtomicJsonSaveAlone(d, content) ==
    LET t == WriteWhole(d, "tmp", content, {})
        b == IF Exists(t, "main") THEN CopyToBackup(t, {}) ELSE t
    IN ReplaceTarget(b, {})

\* an except branch that forgets the backup and starts empty
LoadRecoveredReinit(d) ==
    [ret |-> EmptyList, disk |-> AtomicJsonSaveAlone(d, EmptyList)]

\* safe_json_load(): the except branch for content that does not parse
LoadRecovered(d) ==
    IF Exists(d, "bak") /\ Parses(ContentOf(d, "bak"))
    THEN [ret |-> ContentOf(d, "bak"), disk |-> AtomicJsonSaveAlone(d, ContentOf(d, "bak"))]
    ELSE [ret |-> EmptyList, disk |-> AtomicJsonSaveAlone(d, EmptyList)]

\* safe_json_load(path): what it returns and the files it leaves
SafeJsonLoadResult(d) ==
    IF ~Exists(d, "main") THEN [ret |-> EmptyList, disk |-> d]
    ELSE IF Parses(ContentOf(d, "main")) THEN [ret |-> ContentOf(d, "main"), disk |-> d]
    ELSE LoadRecovered(d)

NoLoad ==
    [ran |-> FALSE, ret |-> <<>>, main_before |-> <<>>, bak_before |-> <<>>,
     had_main |-> FALSE, had_bak |-> FALSE, main_after |-> <<>>]

Writers == {1, 2}
WriterData == <<DataA, DataB>>
NoWriter == [pc |-> "idle", fd |-> NoFile, off |-> 0, raised |-> FALSE]
NoIo == [load |-> NoLoad, w |-> [x \in Writers |-> NoWriter], read |-> EmptyList,
         seen |-> FALSE]

\* the inodes held open by the writers, and by the writers other than x
Fds == {io.w[x].fd : x \in Writers} \ {NoFile}
OtherFds(x) == {io.w[y].fd : y \in (Writers \ {x})} \ {NoFile}

\* something outside the helpers leaves a file as it is found later: whole,
\* cut short, or not there
FileFound(path, content, there) ==
    /\ \A x \in Writers : io.w[x].pc = "idle"
    /\ disk' = IF there THEN WriteWhole(disk, path, content, {})
               ELSE Reclaim([disk EXCEPT ![path] = NoFile], {})
    /\ disk' # disk
    /\ UNCHANGED <<ops, po, io, retry, urlv, limit, lastPost, generator, qf, por>>
    /\ UNCHANGED storeVars
    /\ UNCHANGED <<mode, daily, run, wire, checked, ov>>
    /\ UNCHANGED <<cp, sent, plan, prefsFile, updater, remote, sync>>

SafeJsonLoad ==
    /\ \A x \in Writers : io.w[x].pc = "idle"
    /\ disk' = SafeJsonLoadResult(disk).disk
    /\ io' = [io EXCEPT !.load =
                [ran |-> TRUE, ret |-> SafeJsonLoadResult(disk).ret,
                 main_before |-> ContentOf(disk, "main"),
                 bak_before |-> ContentOf(disk, "bak"),
                 had_main |-> Exists(disk, "main"), had_bak |-> Exists(disk, "bak"),
                 main_after |-> ContentOf(disk', "main")]]
    /\ UNCHANGED <<ops, po, retry, urlv, limit, lastPost, generator, qf, por>>
    /\ UNCHANGED storeVars
    /\ UNCHANGED <<mode, daily, run, wire, checked, ov>>
    /\ UNCHANGED <<cp, sent, plan, prefsFile, updater, remote, sync>>

\* atomic_json_save(path, data) step by step, for writers that overlap
\* step 1: open(tmp_path, "w")
SaveOpenTmp(x) ==
    /\ io.w[x].pc = "idle"
    /\ disk' = OpenForWrite(disk, "tmp", Fds)
    /\ io' = [io EXCEPT !.w[x] = [pc |-> "write", fd |-> disk'.tmp, off |-> 0,
                                  raised |-> FALSE]]
    /\ UNCHANGED <<ops, po, retry, urlv, limit, lastPost, generator, qf, por>>
    /\ UNCHANGED storeVars
    /\ UNCHANGED <<mode, daily, run, wire, checked, ov>>
    /\ UNCHANGED <<cp, sent, plan, prefsFile, updater, remote, sync>>

\* step 1: json.dump writes the next chunk; after the last one the file is
\* closed
SaveWrite(x) ==
    /\ io.w[x].pc = "write"
    /\ LET me == io.w[x]
           last == me.off + 1 = Len(WriterData[x])
       IN /\ disk' = Reclaim([disk EXCEPT !.data[me.fd] =
                                 WriteAt(@, me.off, WriterData[x][me.off + 1])],
                             IF last THEN OtherFds(x) ELSE Fds)
          /\ io' = [io EXCEPT !.w[x] =
                      IF last THEN [me EXCEPT !.pc = "backup", !.fd = NoFile, !.off = 0]
                      ELSE [me EXCEPT !.off = @ + 1]]
    /\ UNCHANGED <<ops, po, retry, urlv, limit, lastPost, generator, qf, por>>
    /\ UNCHANGED storeVars
    /\ UNCHANGED <<mode, daily, run, wire, checked, ov>>
    /\ UNCHANGED <<cp, sent, plan, prefsFile, updater, remote, sync>>

\* step 2: if path.exists(): shutil.copy2(path, backup_path)
SaveBackup(x) ==
    /\ io.w[x].pc = "backup"
    /\ disk' = IF Exists(disk, "main") THEN CopyToBackup(disk, Fds) ELSE disk
    /\ io' = [io EXCEPT !.w[x].pc = "rename"]
    /\ UNCHANGED <<ops, po, retry, urlv, limit, lastPost, generator, qf, por>>
    /\ UNCHANGED storeVars
    /\ UNCHANGED <<mode, daily, run, wire, checked, ov>>
    /\ UNCHANGED <<cp, sent, plan, prefsFile, updater, remote, sync>>

\* step 3: tmp_path.replace(path); FileNotFoundError when the tmp path is
\* gone
SaveRename(x) ==
    /\ io.w[x].pc = "rename"
    /\ disk' = IF Exists(disk, "tmp") THEN ReplaceTarget(disk, Fds) ELSE disk
    /\ io' = [io EXCEPT !.w[x].pc = "idle", !.w[x].raised = ~Exists(disk, "tmp")]
    /\ UNCHANGED <<ops, po, retry, urlv, limit, lastPost, generator, qf, por>>
    /\ UNCHANGED storeVars
    /\ UNCHANGED <<mode, daily, run, wire, checked, ov>>
    /\ UNCHANGED <<cp, sent, plan, prefsFile, updater, remote, sync>>

\* a reader opens the target and reads it to the end
ReadTarget ==
    /\ Exists(disk, "main")
    /\ io' = [io EXCEPT !.read = ContentOf(disk, "main"), !.seen = TRUE]
    /\ UNCHANGED <<ops, po, disk, retry, urlv, limit, lastPost, generator, qf, por>>
    /\ UNCHANGED storeVars
    /\ UNCHANGED <<mode, daily, run, wire, checked, ov>>
    /\ UNCHANGED <<cp, sent, plan, prefsFile, updater, remote, sync>>

\* ------------------------------------------------------ retry_with_backoff
\* (src/utils.py)
MaxRetriesArg == 3
MaxBaseDelay == 2
\* what a call of fn does: it returns a value or raises an exception
FnValues == {"v1", "v2"}
FnErrors == {"e1", "e2"}

RECURSIVE Pow2(_)
Pow2(k) == IF k = 0 THEN 1 ELSE 2 * Pow2(k - 1)

\* a wait that does not grow
DelayConstant(base_delay, attempt) == base_delay

\* delay = base_delay * (2 ** attempt)
Delay(base_delay, attempt) == base_delay * Pow2(attempt)

\* results: what each call of fn did; slept: the delays slept; last_error:
\* the exception kept; out: what the call returned or raised; by: the
\* caller, when the call is the one _generate_single makes
NoRetry ==
    [pc |-> "idle", max_retries |-> 0, base_delay |-> 0, attempt |-> 0,
     results |-> <<>>, slept |-> <<>>, last_error |-> "None", out |-> "None",
     by |-> "none"]

RetryStart(max_retries, base_delay) ==
    /\ retry.pc \in {"idle", "returned", "raised"}
    /\ retry' = [NoRetry EXCEPT !.pc = "call", !.max_retries = max_retries,
                                !.base_delay = base_delay]
    /\ UNCHANGED <<ops, po, disk, io, urlv, limit, lastPost, generator, qf, por>>
    /\ UNCHANGED storeVars
    /\ UNCHANGED <<mode, daily, run, wire, checked, ov>>
    /\ UNCHANGED <<cp, sent, plan, prefsFile, updater, remote, sync>>

\* one turn of the loop: fn() returns, or raises and the loop sleeps before
\* the next turn, or it was the last turn and last_error is raised
RetryAttempt(r) ==
    /\ retry.pc = "call"
    /\ retry' =
         IF r \in FnValues
         THEN [retry EXCEPT !.pc = "returned", !.results = Append(@, r), !.out = r]
         ELSE IF retry.attempt < retry.max_retries
         THEN [retry EXCEPT !.results = Append(@, r),
                            !.last_error = r,
                            !.slept = Append(@, Delay(retry.base_delay, retry.attempt)),
                            !.attempt = @ + 1]
         ELSE [retry EXCEPT !.pc = "raised", !.results = Append(@, r),
                            !.last_error = r, !.out = r]
    /\ UNCHANGED <<ops, po, disk, io, urlv, limit, lastPost, generator, qf, por>>
    /\ UNCHANGED storeVars
    /\ UNCHANGED <<mode, daily, run, wire, checked, ov>>
    /\ UNCHANGED <<cp, sent, plan, prefsFile, updater, remote, sync>>

\* QuoteGenerator._generate_single: without a client the demo text is
\* returned; otherwise retry_with_backoff(_call_gemini, max_retries=3) with
\* the default base_delay, each call of fn being one request to the LLM
GenerateSingleMaxRetries == 3
DefaultBaseDelay == 2

GenerateSingleStart(hasClient) ==
    /\ retry.pc \in {"idle", "returned", "raised"}
    /\ retry' =
         IF hasClient
         THEN [NoRetry EXCEPT !.pc = "call", !.max_retries = GenerateSingleMaxRetries,
                              !.base_delay = DefaultBaseDelay, !.by = "_generate_single"]
         ELSE [NoRetry EXCEPT !.out = "demo", !.by = "_generate_single"]
    /\ UNCHANGED <<ops, po, disk, io, urlv, limit, lastPost, generator, qf, por>>
    /\ UNCHANGED storeVars
    /\ UNCHANGED <<mode, daily, run, wire, checked, ov>>
    /\ UNCHANGED <<cp, sent, plan, prefsFile, updater, remote, sync>>

\* what _generate_single returns once the retry call is over: the text, or
\* None after the last failure
GenerateSingleReturn(r) == IF r.pc = "raised" THEN "None" ELSE r.out

\* ------------------------------------------------- TweetParser (URLs)
\* A URL is the sequence of its characters.
MaxNameLen == 2
MaxIdLen == 2
Letters ==
    {"a", "b", "c", "d", "e", "f", "g", "h", "i", "j", "k", "l", "m",
     "n", "o", "p", "q", "r", "s", "t", "u", "v", "w", "x", "y", "z"}
Digits == {"0", "1", "2", "3", "4", "5", "6", "7", "8", "9"}

\* a \w that matches letters only
WordCharsLettersOnly == Letters

\* \w and \d of the URL patterns
WordChars == Letters \cup Digits \cup {"_"}
DigitChars == Digits

StartsWith(s, p) == Len(s) >= Len(p) /\ SubSeq(s, 1, Len(p)) = p
Drop(s, n) == SubSeq(s, n + 1, Len(s))

\* the length of the longest prefix of s made of characters of class
RECURSIVE RunLen(_, _)
RunLen(s, class) ==
    IF s = <<>> \/ Head(s) \notin class THEN 0 ELSE 1 + RunLen(Tail(s), class)

\* str.strip(): leading and trailing blanks go
RECURSIVE StripLeft(_)
StripLeft(s) == IF s # <<>> /\ Head(s) = " " THEN StripLeft(Tail(s)) ELSE s
RECURSIVE StripRight(_)
StripRight(s) ==
    IF s # <<>> /\ s[Len(s)] = " " THEN StripRight(SubSeq(s, 1, Len(s) - 1)) ELSE s
Strip(s) == StripRight(StripLeft(s))

\* url.split("?")[0]: the part before the first question mark
RECURSIVE BeforeQuery(_)
BeforeQuery(s) ==
    IF s = <<>> \/ Head(s) = "?" THEN <<>> ELSE <<Head(s)>> \o BeforeQuery(Tail(s))

LitHttp == <<"h", "t", "t", "p">>
LitColonSlashes == <<":", "/", "/">>
LitStatus == <<"/", "s", "t", "a", "t", "u", "s", "/">>
HostX == <<"x", ".", "c", "o", "m">>
HostTwitter == <<"t", "w", "i", "t", "t", "e", "r", ".", "c", "o", "m">>
HostMobileX == <<"m", "o", "b", "i", "l", "e", ".", "x", ".", "c", "o", "m">>
HostMobileTwitter == <<"m", "o", "b", "i", "l", "e", ".", "t", "w", "i", "t", "t", "e", "r", ".", "c", "o", "m">>
HostVx == <<"v", "x", "t", "w", "i", "t", "t", "e", "r", ".", "c", "o", "m">>
HostFx == <<"f", "x", "t", "w", "i", "t", "t", "e", "r", ".", "c", "o", "m">>
HostOther == <<"g", "o", "o", "g", "l", "e", ".", "c", "o", "m">>

\* URL_PATTERNS: the host alternatives of the three patterns, in order
URL_PATTERNS == <<<<HostX, HostTwitter>>, <<HostMobileX, HostMobileTwitter>>, <<HostVx, HostFx>>>>

NoMatch == <<>>

\* what is left of s after a host of the alternatives and the slash after
\* it, <<rest>>, or <<>> when none of them is there
AfterHost(s, alts) ==
    IF StartsWith(s, alts[1] \o <<"/">>) THEN <<Drop(s, Len(alts[1]) + 1)>>
    ELSE IF StartsWith(s, alts[2] \o <<"/">>) THEN <<Drop(s, Len(alts[2]) + 1)>>
    ELSE <<>>

\* (\w+)/status/(\d+) at the start of s: the two groups, or NoMatch
MatchPath(s) ==
    LET n == RunLen(s, WordChars)
        r == Drop(s, n)
        d == Drop(r, Len(LitStatus))
        k == RunLen(d, DigitChars)
    IN  IF n >= 1 /\ StartsWith(r, LitStatus) /\ k >= 1
        THEN <<SubSeq(s, 1, n), SubSeq(d, 1, k)>>
        ELSE NoMatch

\* pattern.match(url_clean) for https?://<host>/(\w+)/status/(\d+): the
\* match is anchored at the start only
PatternMatch(s, alts) ==
    LET a == Drop(s, Len(LitHttp))
        b == IF a # <<>> /\ Head(a) = "s" THEN Tail(a) ELSE a
        c == Drop(b, Len(LitColonSlashes))
        h == AfterHost(c, alts)
    IN  IF StartsWith(s, LitHttp) /\ StartsWith(b, LitColonSlashes) /\ h # <<>>
        THEN MatchPath(h[1])
        ELSE NoMatch

\* parse_url(url): (username, tweet_id) of the first pattern that matches,
\* or None
RECURSIVE FirstMatch(_, _)
FirstMatch(s, i) ==
    IF i > Len(URL_PATTERNS) THEN NoMatch
    ELSE IF PatternMatch(s, URL_PATTERNS[i]) # NoMatch THEN PatternMatch(s, URL_PATTERNS[i])
    ELSE FirstMatch(s, i + 1)

parse_url(url) == FirstMatch(BeforeQuery(Strip(url)), 1)

\* build_url(username, tweet_id)
build_url(username, tweet_id) ==
    LitHttp \o <<"s">> \o LitColonSlashes \o HostX \o <<"/">> \o username
        \o LitStatus \o tweet_id

\* the URLs handed to parse_url
NameChars == {"a", "_", "7"}
IdChars == {"7", "1"}
Usernames == UNION {[1..k -> NameChars] : k \in 1..MaxNameLen}
TweetIdStrings == UNION {[1..k -> IdChars] : k \in 1..MaxIdLen}
Schemes == {LitHttp, LitHttp \o <<"s">>}
SupportedHosts == {HostX, HostTwitter, HostMobileTwitter, HostVx, HostFx}
Hosts == SupportedHosts \cup {HostMobileX, HostOther}
Queries == {<<>>, <<"?", "s", "=", "2", "0">>}
Pads == {<<>>, <<" ">>}

\* a URL as a user pastes it: scheme, host, path, maybe a query and a blank
UrlOfForm(scheme, host, username, tweet_id, query, pad) ==
    scheme \o LitColonSlashes \o host \o <<"/">> \o username \o LitStatus
        \o tweet_id \o query \o pad

NoUrlCall ==
    [pc |-> "idle", url |-> <<>>, username |-> <<>>, tweet_id |-> <<>>,
     host |-> <<>>, query |-> <<>>, built |-> FALSE, result |-> NoMatch]

\* build_url is called
BuildUrl(username, tweet_id) ==
    /\ urlv.pc = "idle"
    /\ urlv' = [NoUrlCall EXCEPT !.pc = "given", !.url = build_url(username, tweet_id),
                                 !.username = username, !.tweet_id = tweet_id,
                                 !.host = HostX, !.built = TRUE]
    /\ UNCHANGED <<storeVars, mode, daily, run, wire, checked, ov>>
    /\ UNCHANGED <<cp, sent, plan, prefsFile, updater, remote, sync>>
    /\ UNCHANGED <<ops, po, disk, io, retry, limit, lastPost, generator, qf, por>>

\* a URL arrives from the command line
GiveUrl(scheme, host, username, tweet_id, query, pad) ==
    /\ urlv.pc = "idle"
    /\ urlv' = [NoUrlCall EXCEPT !.pc = "given",
                                 !.url = UrlOfForm(scheme, host, username, tweet_id, query, pad),
                                 !.username = username, !.tweet_id = tweet_id,
                                 !.host = host, !.query = query]
    /\ UNCHANGED <<storeVars, mode, daily, run, wire, checked, ov>>
    /\ UNCHANGED <<cp, sent, plan, prefsFile, updater, remote, sync>>
    /\ UNCHANGED <<ops, po, disk, io, retry, limit, lastPost, generator, qf, por>>

\* parse_url is called with it
ParseUrl ==
    /\ urlv.pc = "given"
    /\ urlv' = [urlv EXCEPT !.pc = "parsed", !.result = parse_url(urlv.url)]
    /\ UNCHANGED <<storeVars, mode, daily, run, wire, checked, ov>>
    /\ UNCHANGED <<cp, sent, plan, prefsFile, updater, remote, sync>>
    /\ UNCHANGED <<ops, po, disk, io, retry, limit, lastPost, generator, qf, por>>

\* ------------------------------------------- QueueSync.sync_from_sheet
MaxSheetRows == 2
SheetStatuses == {"pending", "approved", "skipped", "posted"}

\* read_queue_decisions(): the rows of the sheet that carry a tweet_id
SheetDecisions ==
    UNION {[1..k -> [tweet_id : TweetIds, status : SheetStatuses]] : k \in 1..MaxSheetRows}

\* the loop over the decisions: current_map is the snapshot taken before the
\* loop, q the stores (pending, feedback) as the calls so far left them
RECURSIVE SheetApply(_, _, _)
SheetApply(q, current_map, decisions) ==
    IF decisions = <<>> THEN q
    ELSE LET d == Head(decisions)
             current_status == current_map[d.tweet_id]
             after ==
                 IF current_status = "none" THEN q
                 ELSE IF current_status = d.status THEN q
                 ELSE IF current_status = "pending" /\ d.status = "approved"
                      THEN [pending |-> ApproveResult(q.pending, d.tweet_id),
                            feedback |-> ApproveFeedback(q.feedback, q.pending, d.tweet_id)]
                 ELSE IF d.status = "skipped"
                      THEN [pending |-> SkipResult(q.pending, d.tweet_id, ""),
                            feedback |-> SkipFeedback(q.feedback, q.pending, d.tweet_id, "")]
                 ELSE q
         IN  SheetApply(after, current_map, Tail(decisions))

\* sync_from_sheet(): the stores after the call
SyncFromSheetResult(pend, fb, decisions) ==
    SheetApply([pending |-> pend, feedback |-> fb],
               [t \in TweetIds |-> StatusIn(pend, t)], decisions)

SyncFromSheet(decisions) ==
    /\ UNCHANGED cmdVars
    /\ FeedbackRoom(Len(decisions))
    /\ pending' = SyncFromSheetResult(pending, feedback, decisions).pending
    /\ feedback' = SyncFromSheetResult(pending, feedback, decisions).feedback
    /\ lastOp' = Call("sync_from_sheet", 0, "", pending' # pending, "none")
    /\ Track
    /\ UNCHANGED <<processed, now>>

\* ------------------------------------------------- QuoteGenerator instance
\* TEMPLATE_IDS (two of the eight) and an id that is no template
TEMPLATE_IDS == <<"translate_comment", "summary_points">>
UnknownTemplate == "custom"
TemplateNames == {TEMPLATE_IDS[i] : i \in 1..Len(TEMPLATE_IDS)} \cup {UnknownTemplate}
NoTemplate == ""

\* quote_rules templates: id -> max_daily_uses, and the default of .get()
DefaultMaxDailyUses == 2
RuleMaxDailyUses == [t \in {"translate_comment"} |-> 1]

\* max_daily.get(tid, 2)
MaxDailyGet(t) == IF t \in DOMAIN RuleMaxDailyUses THEN RuleMaxDailyUses[t] ELSE DefaultMaxDailyUses

\* enabled_templates of the prompt overrides, split at the commas; empty:
\* every template of TEMPLATE_IDS is enabled
EnabledLists ==
    {<<>>, <<"translate_comment">>, <<"summary_points", "translate_comment">>,
     <<"translate_comment", "custom">>}
EnabledIds(enabled_csv) == IF enabled_csv # <<>> THEN enabled_csv ELSE TEMPLATE_IDS

Members(seq) == {seq[i] : i \in 1..Len(seq)}

NoUsage == [t \in TemplateNames |-> 0]
\* the model stops counting the uses of a template here
MaxUsage == 3

\* lines 201-206: a new date clears the counters and the history
UsageAtCall(g, today) == IF g.usage_date # today THEN NoUsage ELSE g.template_usage
RecentAtCall(g, today) == IF g.usage_date # today THEN <<>> ELSE g.recent_templates

\* a candidate list that forgets the counters
AvailableAll(enabled_ids, usage) ==
    {t \in Members(enabled_ids) : t \in Members(TEMPLATE_IDS)}

\* the enabled templates of TEMPLATE_IDS that are below their cap
Available(enabled_ids, usage) ==
    {t \in Members(enabled_ids) : t \in Members(TEMPLATE_IDS) /\ usage[t] < MaxDailyGet(t)}

LastTwo(seq) == IF Len(seq) <= 2 THEN Members(seq) ELSE {seq[Len(seq) - 1], seq[Len(seq)]}

\* the list random.choice draws from
Candidates(enabled_ids, usage, recent) ==
    LET available == IF Available(enabled_ids, usage) # {}
                     THEN Available(enabled_ids, usage)
                     ELSE Members(enabled_ids)
        non_recent == available \ LastTwo(recent)
    IN  IF Cardinality(available) > 1 /\ recent # <<>> /\ non_recent # {}
        THEN non_recent ELSE available

\* the preferred template is returned when it is known, enabled and below
\* its cap
PreferredUsable(preferred, enabled_ids, usage) ==
    /\ preferred # NoTemplate
    /\ preferred \in DOMAIN RuleMaxDailyUses
    /\ preferred \in Members(enabled_ids)
    /\ usage[preferred] < RuleMaxDailyUses[preferred]

\* _recent_templates after the append: the model keeps the last two, the
\* only part that is read
KeepRecent(recent, chosen) ==
    IF Len(recent) < 2 THEN Append(recent, chosen) ELSE <<recent[Len(recent)], chosen>>

\* the calls of _generate_single that follow the first one: for each the
\* text whose score and safety result made the loop go on
RECURSIVE Reprompts(_, _, _)
Reprompts(judged, att, k) ==
    IF k > GenRetries \/ GenPasses(judged) THEN <<>>
    ELSE <<judged>> \o Reprompts(IF att[k + 1] # NoText THEN att[k + 1] ELSE judged,
                                 att, k + 1)

TextLow == [len |-> 100, ng |-> FALSE, tags |-> 0, links |-> 0, score |-> 4]
GenerateAttempts ==
    {<<NoText, NoText, NoText>>, <<TextOk, NoText, NoText>>,
     <<TextNg, TextLow, TextOk>>, <<TextLow, NoText, TextNg>>,
     <<TextLow, TextOk, NoText>>, <<TextNg, TextNg, TextNg>>}

NoGenerateCall ==
    [done |-> FALSE, preferred |-> NoTemplate, template_id |-> NoTemplate,
     date_changed |-> FALSE, usage_before |-> NoUsage, first |-> NoText,
     reprompts |-> <<>>, templates |-> <<>>, text |-> NoText]

NoGenerator ==
    [made |-> FALSE, enabled |-> <<>>, usage_date |-> 0, template_usage |-> NoUsage,
     recent_templates |-> <<>>, call |-> NoGenerateCall]

\* QuoteGenerator(...): the overrides are loaded, the counters are empty
NewGenerator(enabled_csv) ==
    /\ generator' = [NoGenerator EXCEPT !.made = TRUE, !.enabled = enabled_csv]
    /\ UNCHANGED storeVars
    /\ UNCHANGED <<mode, daily, run, wire, checked, ov>>
    /\ UNCHANGED <<cp, sent, plan, prefsFile, updater, remote, sync>>
    /\ UNCHANGED <<ops, po, disk, io, retry, urlv, limit, lastPost, qf, por>>

\* generate(template_id=preferred): _get_template_id with its draw chosen,
\* the first text and the re-prompts, then the usage count of the template
GenerateCall(preferred, chosen, att) ==
    LET usage == UsageAtCall(generator, now)
        recent == RecentAtCall(generator, now)
        enabled_ids == EnabledIds(generator.enabled)
        byPreference == PreferredUsable(preferred, enabled_ids, usage)
        template_id == IF byPreference THEN preferred ELSE chosen
        reprompts == IF att[1] = NoText THEN <<>> ELSE Reprompts(att[1], att, 1)
    IN  /\ generator.made
        /\ usage[template_id] < MaxUsage
        /\ byPreference \/ chosen \in Candidates(enabled_ids, usage, recent)
        /\ byPreference => chosen = preferred
        /\ generator' =
             [generator EXCEPT
                !.usage_date = now,
                !.recent_templates = IF byPreference THEN recent ELSE KeepRecent(recent, chosen),
                !.template_usage =
                    IF att[1] = NoText THEN usage
                    ELSE [usage EXCEPT ![template_id] = @ + 1],
                !.call = [done |-> TRUE, preferred |-> preferred,
                          template_id |-> template_id,
                          date_changed |-> generator.usage_date # now,
                          usage_before |-> usage, first |-> att[1],
                          reprompts |-> reprompts,
                          templates |-> [i \in 1..(1 + Len(reprompts)) |-> template_id],
                          text |-> Generate(att)]]
        /\ UNCHANGED storeVars
        /\ UNCHANGED <<mode, daily, run, wire, checked, ov>>
        /\ UNCHANGED <<cp, sent, plan, prefsFile, updater, remote, sync>>
        /\ UNCHANGED <<ops, po, disk, io, retry, urlv, limit, lastPost, qf, por>>

\* the date changes between two calls
GeneratorDay ==
    /\ now < 1 + MaxNow
    /\ now' = now + 1
    /\ UNCHANGED <<pending, processed, feedback, lastOp, everDecided>>
    /\ UNCHANGED cmdVars

\* ------------------------------- the queue files and their .bak siblings
\* pending_tweets.json with its .bak, and processed_tweets.json, at the level
\* of the record lists they hold. A file is absent, unparsable, or a list.
NoSuchFile == [kind |-> "absent", data |-> <<>>]
Unparsable == [kind |-> "corrupt", data |-> <<>>]
ListFile(data) == [kind |-> "list", data |-> data]

\* longest processed list a mark_posted call may start from
MaxPosted == 2

NoMarkPosted == [id |-> NoId, processed |-> <<>>, found |-> FALSE]

NoQueueFiles ==
    [pending |-> NoSuchFile, pending_bak |-> NoSuchFile, processed |-> NoSuchFile,
     pc |-> "idle", mp |-> NoMarkPosted, recovered |-> FALSE]

IsList(file) == file.kind = "list"

\* atomic_json_save(path, data) on the pending file: the file as it is
\* is copied to .bak when it exists, then the new content replaces it
QfSavePending(q, data) ==
    [q EXCEPT !.pending = ListFile(data),
              !.pending_bak = IF q.pending # NoSuchFile THEN q.pending ELSE @]

\* safe_json_load(pending file): the files after the call
QfAfterLoad(q) ==
    IF q.pending # Unparsable THEN q
    ELSE IF IsList(q.pending_bak) THEN QfSavePending(q, q.pending_bak.data)
    ELSE QfSavePending(q, <<>>)

\* safe_json_load(path): the value returned
QfLoaded(file, bak) ==
    IF file = NoSuchFile THEN <<>>
    ELSE IF file # Unparsable THEN file.data
    ELSE IF IsList(bak) THEN bak.data
    ELSE <<>>

QfFrame ==
    /\ UNCHANGED storeVars
    /\ UNCHANGED <<mode, daily, run, wire, checked, ov>>
    /\ UNCHANGED <<cp, sent, plan, prefsFile, updater, remote, sync>>
    /\ UNCHANGED <<ops, po, disk, io, retry, urlv, limit, lastPost, generator, por>>

\* a Queue Store method that loads the pending list, changes it and saves it
\* (add, approve, set_generated); result gives the list to save
QfUpdate(q, result) ==
    [QfSavePending(QfAfterLoad(q), result) EXCEPT
        !.recovered = FALSE, !.mp = NoMarkPosted]

QfAdd(t) ==
    /\ qf.pc = "idle"
    /\ LET pend == QfLoaded(qf.pending, qf.pending_bak)
           proc == QfLoaded(qf.processed, NoSuchFile)
       IN  qf' = IF AddIsDup(pend, proc, t)
                 THEN [QfAfterLoad(qf) EXCEPT !.recovered = qf.pending = Unparsable,
                                              !.mp = NoMarkPosted]
                 ELSE QfUpdate(qf, AddResult(pend, proc, t))
    /\ QfFrame

QfApprove(t) ==
    /\ qf.pc = "idle"
    /\ FirstIndex(QfLoaded(qf.pending, qf.pending_bak), t) # 0
    /\ qf' = QfUpdate(qf, ApproveResult(QfLoaded(qf.pending, qf.pending_bak), t))
    /\ QfFrame

QfSetGenerated(t) ==
    /\ qf.pc = "idle"
    /\ qf' = QfUpdate(qf, SetGeneratedResult(QfLoaded(qf.pending, qf.pending_bak), t,
                                             TextOk, NoScore))
    /\ QfFrame

\* a reading method (get_generated, get_all_pending): _load only
QfRead ==
    /\ qf.pc = "idle"
    /\ qf' = [QfAfterLoad(qf) EXCEPT !.recovered = qf.pending = Unparsable,
                                     !.mp = NoMarkPosted]
    /\ QfFrame

\* the pending file is damaged between two runs
QfDamage ==
    /\ qf.pc = "idle"
    /\ IsList(qf.pending)
    /\ qf' = [qf EXCEPT !.pending = Unparsable, !.recovered = FALSE, !.mp = NoMarkPosted]
    /\ QfFrame

\* mark_posted up to and with its first write: both lists are loaded, the
\* record is moved in memory (mp.processed is the processed list the call
\* holds), the pending list is saved
QfMarkPostedFirstSave(t) ==
    /\ qf.pc = "idle"
    /\ Len(QfLoaded(qf.processed, NoSuchFile)) < MaxPosted
    /\ LET pend == QfLoaded(qf.pending, qf.pending_bak)
           proc == QfLoaded(qf.processed, NoSuchFile)
       IN  qf' = [QfSavePending(QfAfterLoad(qf), MarkPostedPending(pend, t)) EXCEPT
                     !.pc = "between_saves", !.recovered = FALSE,
                     !.mp = [id |-> t, found |-> FirstIndex(pend, t) # 0,
                             processed |-> MarkPostedProcessed(pend, proc, t,
                                                               "p9", now)]]
    /\ QfFrame

\* mark_posted, second write: the processed list is saved
QfMarkPostedSecondSave ==
    /\ qf.pc = "between_saves"
    /\ qf' = [qf EXCEPT !.pc = "idle", !.mp = NoMarkPosted,
                        !.processed = ListFile(qf.mp.processed)]
    /\ QfFrame

\* the process stops between the two writes
QfStop ==
    /\ qf.pc = "between_saves"
    /\ qf' = [qf EXCEPT !.pc = "stopped"]
    /\ QfFrame

\* the next process starts
QfRestart ==
    /\ qf.pc = "stopped"
    /\ qf' = [qf EXCEPT !.pc = "idle", !.mp = NoMarkPosted]
    /\ QfFrame

\* ------------------------------------ two process-operations runs at once
\* (the scheduled workflow and a manual dispatch; each run is one
\* cmd_process_operations call over the same request documents)
PoRuns == {1, 2}

NoOverlapRun == [pc |-> "idle", list |-> <<>>, i |-> 0]

\* started: how often the command of each request has been started
NoPoOverlap == [runs |-> [r \in PoRuns |-> NoOverlapRun],
                started |-> [o \in OpIds |-> 0]]

PorFrame ==
    /\ UNCHANGED <<mode, daily, run, wire, checked, ov>>
    /\ UNCHANGED <<cp, sent, plan, prefsFile, updater, remote, sync>>
    /\ UNCHANGED <<po, disk, io, retry, urlv, limit, lastPost, generator, qf>>
    /\ UNCHANGED <<processed, feedback, now, lastOp, everDecided>>

\* the branches of the try block that start a subprocess
StartsSubprocess(kind) == kind \in {"add-tweet", "collect"}

\* fc.get_pending_operations(): the run keeps the list it was given
PorStart(r) ==
    /\ por.runs[r].pc = "idle"
    /\ LET list == PendingOperations(ops, 1)
       IN por' = [por EXCEPT !.runs[r] =
                     IF list = <<>> THEN NoOverlapRun
                     ELSE [pc |-> "mark", list |-> list, i |-> 1]]
    /\ UNCHANGED <<ops, pending>>
    /\ PorFrame

\* fc.update_operation_status(doc_id, "running", uid=op_uid)
PorMarkRunning(r) ==
    /\ por.runs[r].pc = "mark"
    /\ ops' = UpdateOperationStatus(ops, por.runs[r].list[por.runs[r].i], "running")
    /\ por' = [por EXCEPT !.runs[r].pc = "exec"]
    /\ UNCHANGED pending
    /\ PorFrame

\* the try block of one request, with the credentials read before it
PorExecute(r, outcome) ==
    /\ por.runs[r].pc = "exec"
    /\ LET me == por.runs[r]
           o == me.list[me.i]
       IN /\ ops' = UpdateOperationStatus(ops, o, SettledStatus(ops[o].kind, outcome))
          /\ por' = [por EXCEPT
                        !.runs[r] = IF me.i < Len(me.list)
                                    THEN [me EXCEPT !.pc = "mark", !.i = @ + 1]
                                    ELSE NoOverlapRun,
                        !.started[o] = IF StartsSubprocess(ops[o].kind)
                                       THEN @ + 1 ELSE @]
          /\ pending' \in IF ops[o].kind = "add-tweet"
                           THEN AddTweetQueues(pending, processed, ops[o].tweet_url,
                                               outcome)
                           ELSE {pending}
    /\ PorFrame

\* ------------------------------------------------------------------ Init
Init ==
    /\ pending = <<>>
    /\ processed = <<>>
    /\ feedback = EmptyFeedback
    /\ now = 1
    /\ lastOp = NoCall
    /\ everDecided = {}
    /\ mode = "manual_approval"
    /\ daily = NoDaily
    /\ run = Idle
    /\ wire = NoReq
    /\ checked = NoCheck
    /\ ov = [p \in {1, 2} |-> [pc |-> "idle", op |-> "none", id |-> 0,
                                pend |-> <<>>, proc |-> <<>>, calls |-> 0]]
    /\ cp = [p \in CpRuns |-> CpIdle]
    /\ sent = NoneSent
    /\ plan = NoPlan
    /\ prefsFile = NoPrefsFile
    /\ updater = NoUpdater
    /\ remote = {}
    /\ sync = NoSync
    /\ ops = NoOps
    /\ po = NoPoRun
    /\ disk = NoDisk
    /\ io = NoIo
    /\ retry = NoRetry
    /\ urlv = NoUrlCall
    /\ limit = DailyLimit
    /\ lastPost = NoPost
    /\ generator = NoGenerator
    /\ qf = NoQueueFiles
    /\ por = NoPoOverlap

\* ----------------------------------------- the Queue Store as a library
BatchInputs == {<<a, b>> : a \in TweetIds, b \in TweetIds}

NextStore ==
    \/ \E t \in TweetIds : Add(t)
    \/ \E ts \in BatchInputs : AddBatch(ts)
    \/ \E t \in TweetIds : Approve(t)
    \/ ApproveAllPending
    \/ \E t \in TweetIds, r \in SkipReasons : SkipWithReason(t, r)
    \/ \E t \in TweetIds : Remove(t)
    \/ \E t \in TweetIds, x \in StoreTexts : SetGenerated(t, x, NoScore)
    \/ \E t \in TweetIds, p \in PostedIds : MarkPosted(t, p)
    \/ \E d \in 0..1 : CleanupOld(d)
    \/ Tick

SpecStore == Init /\ [][NextStore]_vars

\* --------------------------------------- the commands, one run at a time
GenChoices == [Ids(GetApproved(pending)) -> Attempts]
DailyChoices == {<<a>> : a \in DailyTexts}

Next ==
    \/ \E m \in Modes : SetMode(m)
    \/ \E t \in TweetIds : ToolAdd(t)
    \/ \E t \in TweetIds : ToolApprove(t)
    \/ \E t \in TweetIds : ToolSkip(t)
    \/ ToolApproveAll
    \/ \E att \in GenChoices : Curate(att)
    \/ \E credOk \in BOOLEAN : CuratePostStart(credOk)
    \/ CuratePostItem
    \/ CuratePostMarkPosted
    \/ CuratePostExcept
    \/ \E texts \in DailyChoices : SaveDailyOutput(texts)
    \/ \E credOk \in BOOLEAN : PostStart(credOk)
    \/ \E inSlot \in BOOLEAN : PostItem(inSlot)
    \/ PostMarkAsPosted
    \/ PostExcept
    \/ PostTweetSend
    \/ \E resp \in Responses : PostTweetRecv(resp)

Spec == Init /\ [][Next]_vars

\* ----------------------------------------------------- overlapping runs
\* Two command runs whose Queue Store calls interleave at the file reads
\* (_load) and file writes (_save); a write replaces the whole file.
Procs == {1, 2}
OvOps == {"add", "approve", "skip_with_reason", "set_generated", "mark_posted"}
\* the Queue Store calls one run makes
MaxOvCalls == 2

\* a method returns: its locals are gone
OvReturn(o) == [o EXCEPT !.pc = "idle", !.op = "none", !.id = NoId,
                         !.pend = <<>>, !.proc = <<>>]

\* a run enters one of the Queue Store methods
OvCall(p, op, t) ==
    /\ run.cmd = "none"
    /\ ov[p].pc = "idle"
    /\ ov[p].calls < MaxOvCalls
    /\ op \in {"approve", "skip_with_reason"} => FeedbackRoom(2)
    /\ ov' = [ov EXCEPT ![p] = [pc |-> "load_pending", op |-> op, id |-> t,
                                pend |-> <<>>, proc |-> <<>>, calls |-> ov[p].calls + 1]]
    /\ UNCHANGED storeVars
    /\ UNCHANGED <<auxVars, mode, daily, run, wire, checked>>

\* where a method goes once it holds the lists it reads
OvAfterLoad(o) ==
    IF o.op = "add" THEN
         IF AddIsDup(o.pend, o.proc, o.id) THEN "idle" ELSE "save_pending"
    ELSE IF o.op \in {"approve", "skip_with_reason"} THEN
         IF FirstIndex(o.pend, o.id) = 0 THEN "idle" ELSE "save_pending"
    ELSE "save_pending"

\* pending = self._load(self._pending_file)
OvLoadPending(p) ==
    /\ ov[p].pc = "load_pending"
    /\ ov' = [ov EXCEPT ![p] =
                IF ov[p].op \in {"add", "mark_posted"}
                THEN [ov[p] EXCEPT !.pend = pending, !.pc = "load_processed"]
                ELSE IF OvAfterLoad([ov[p] EXCEPT !.pend = pending]) = "idle"
                THEN OvReturn(ov[p])
                ELSE [ov[p] EXCEPT !.pend = pending, !.pc = "save_pending"]]
    /\ UNCHANGED storeVars
    /\ UNCHANGED <<auxVars, mode, daily, run, wire, checked>>

\* processed = self._load(self._processed_file)
OvLoadProcessed(p) ==
    /\ ov[p].pc = "load_processed"
    /\ ov' = [ov EXCEPT ![p] =
                IF OvAfterLoad([ov[p] EXCEPT !.proc = processed]) = "idle"
                THEN OvReturn(ov[p])
                ELSE [ov[p] EXCEPT !.proc = processed, !.pc = "save_pending"]]
    /\ UNCHANGED storeVars
    /\ UNCHANGED <<auxVars, mode, daily, run, wire, checked>>

\* the pending list a method writes, computed from the list it loaded
OvPendingToSave(o) ==
    IF o.op = "add" THEN AddResult(o.pend, o.proc, o.id)
    ELSE IF o.op = "approve" THEN ApproveResult(o.pend, o.id)
    ELSE IF o.op = "skip_with_reason" THEN SkipResult(o.pend, o.id, "")
    ELSE IF o.op = "set_generated" THEN SetGeneratedResult(o.pend, o.id, TextOk, NoScore)
    ELSE MarkPostedPending(o.pend, o.id)

\* self._save(self._pending_file, pending)
OvSavePending(p) ==
    /\ ov[p].pc = "save_pending"
    /\ pending' = OvPendingToSave(ov[p])
    /\ ov' = [ov EXCEPT ![p] =
                IF ov[p].op \in {"approve", "skip_with_reason"}
                THEN [ov[p] EXCEPT !.pc = "feedback"]
                ELSE IF ov[p].op = "mark_posted"
                THEN [ov[p] EXCEPT !.pc = "save_processed"]
                ELSE OvReturn(ov[p])]
    /\ UNCHANGED <<processed, feedback, now, lastOp, everDecided>>
    /\ UNCHANGED <<auxVars, mode, daily, run, wire, checked>>

\* self._save(self._processed_file, processed)
OvSaveProcessed(p) ==
    /\ ov[p].pc = "save_processed"
    /\ processed' = MarkPostedProcessed(ov[p].pend, ov[p].proc, ov[p].id, "p9", now)
    /\ ov' = [ov EXCEPT ![p] = OvReturn(ov[p])]
    /\ UNCHANGED <<pending, feedback, now, lastOp, everDecided>>
    /\ UNCHANGED <<auxVars, mode, daily, run, wire, checked>>

\* self._record_feedback(item, decision): the feedback file is read, extended
\* and written back
OvFeedback(p) ==
    /\ ov[p].pc = "feedback"
    /\ feedback' = IF ov[p].op = "approve"
                   THEN ApproveFeedback(feedback, ov[p].pend, ov[p].id)
                   ELSE SkipFeedback(feedback, ov[p].pend, ov[p].id, "")
    /\ ov' = [ov EXCEPT ![p] = OvReturn(ov[p])]
    /\ UNCHANGED <<pending, processed, now, lastOp, everDecided>>
    /\ UNCHANGED <<auxVars, mode, daily, run, wire, checked>>

NextOverlap ==
    \/ \E p \in Procs, op \in OvOps, t \in TweetIds : OvCall(p, op, t)
    \/ \E p \in Procs : OvLoadPending(p)
    \/ \E p \in Procs : OvLoadProcessed(p)
    \/ \E p \in Procs : OvSavePending(p)
    \/ \E p \in Procs : OvSaveProcessed(p)
    \/ \E p \in Procs : OvFeedback(p)

SpecOverlap == Init /\ [][NextOverlap]_vars

\* two curate-post runs over a queue the tools and curate filled before
NextCuratePostOverlap ==
    \/ \E t \in TweetIds : CpQuiet /\ Add(t)
    \/ \E t \in TweetIds : CpQuiet /\ Approve(t)
    \/ \E t \in TweetIds, x \in StoreTexts : CpQuiet /\ SetGenerated(t, x, NoScore)
    \/ \E p \in CpRuns, credOk \in BOOLEAN : CpStart(p, credOk)
    \/ \E p \in CpRuns : CpItem(p)
    \/ \E p \in CpRuns, ok \in BOOLEAN : CpPost(p, ok)
    \/ \E p \in CpRuns : CpMarkPosted(p)

SpecCuratePostOverlap == Init /\ [][NextCuratePostOverlap]_vars

\* ------------------------------------------------- one call of plan_daily
NextPlan ==
    \/ \E call \in PlanCalls, a \in AvailableChoices : PlanSelectSlots(call, a)
    \/ PlanAssignTypes
    \/ \E ks \in [1..Len(plan.items) -> 0..JitterSteps] : PlanRandomizeTimes(ks)
    \/ PlanEnforceMinInterval

SpecPlan == Init /\ [][NextPlan]_vars

\* ------------------------------------- one PreferenceUpdater instance
NextPrefs ==
    \/ \E doc \in StartDocs : PrefsWritten(doc)
    \/ \E fb \in FeedbackStats : UpdaterInit(fb)
    \/ \E d \in BOOLEAN, tieUp \in [Keywords -> BOOLEAN] : AutoUpdate(d, tieUp)

SpecPrefs == Init /\ [][NextPrefs]_vars

\* the dashboard writes decisions, the backend syncs them into the queue
NextSync ==
    \/ \E t \in TweetIds : Add(t)
    \/ \E u \in Uids, t \in TweetIds, a \in DecisionActions :
           \E r \in (IF a = "skip" THEN SkipReasons ELSE {""}) : DecisionWritten(u, t, a, r)
    \/ \E u \in SyncUidArgs, ok \in [Uids -> BOOLEAN] : SyncQueueDecisions(u, ok)

SpecSync == Init /\ [][NextSync]_vars

\* the dashboard requests operations, the backend processes them
NextOperations ==
    \/ \E o \in OpIds, k \in OpKinds, t \in TweetIds \cup {NoId} :
           OperationRequested(o, k, t)
    \/ PoStart
    \/ PoMarkRunning
    \/ \E readOk \in BOOLEAN : PoCredentials(readOk)
    \/ \E outcome \in OpOutcomes : PoExecute(outcome)

SpecOperations == Init /\ [][NextOperations]_vars

\* candidates are added to the queue while requests are processed
NextAddTweet ==
    \/ \E t \in TweetIds : Add(t)
    \/ \E o \in OpIds, t \in TweetIds : OperationRequested(o, "add-tweet", t)
    \/ PoStart
    \/ PoMarkRunning
    \/ \E readOk \in BOOLEAN : PoCredentials(readOk)
    \/ \E outcome \in OpOutcomes : PoExecute(outcome)

SpecAddTweet == Init /\ [][NextAddTweet]_vars

\* files found in any condition, then loaded
NextLoad ==
    \/ \E path \in {"main", "bak"}, c \in Documents \cup {Corrupt, <<>>}, there \in BOOLEAN :
           FileFound(path, c, there)
    \/ SafeJsonLoad

SpecLoad == Init /\ [][NextLoad]_vars

\* writers of one target that overlap, and a reader
NextSave ==
    \/ \E x \in Writers : SaveOpenTmp(x)
    \/ \E x \in Writers : SaveWrite(x)
    \/ \E x \in Writers : SaveBackup(x)
    \/ \E x \in Writers : SaveRename(x)
    \/ ReadTarget

SpecSave == Init /\ [][NextSave]_vars

NextRetry ==
    \/ \E m \in 0..MaxRetriesArg, b \in 1..MaxBaseDelay : RetryStart(m, b)
    \/ \E r \in FnValues \cup FnErrors : RetryAttempt(r)
    \/ \E hasClient \in BOOLEAN : GenerateSingleStart(hasClient)

SpecRetry == Init /\ [][NextRetry]_vars
\* ------------------------------- curate-post runs one after another
\* the queue is filled by the tools and curate, the operator edits the daily
\* limit between runs, and days and posting intervals pass
CapResponses == {"200", "200_badjson", "403_json"}

NextCuratePost ==
    \/ \E t \in TweetIds : ToolAdd(t)
    \/ \E t \in TweetIds : ToolApprove(t)
    \/ \E att \in GenChoices : Curate(att)
    \/ \E l \in DailyLimits : SetDailyLimit(l)
    \/ \E credOk \in BOOLEAN : CuratePostStart(credOk)
    \/ CuratePostItem
    \/ PostTweetSend
    \/ \E resp \in CapResponses : PostTweetRecv(resp)
    \/ CuratePostMarkPosted
    \/ CuratePostExcept
    \/ Tick
    \/ Elapse

SpecCuratePost == Init /\ [][NextCuratePost]_vars

\* ------------------------------------------------ TweetParser calls
NextUrl ==
    \/ \E username \in Usernames, tweet_id \in TweetIdStrings : BuildUrl(username, tweet_id)
    \/ \E scheme \in Schemes, host \in Hosts, username \in Usernames,
          tweet_id \in TweetIdStrings, query \in Queries, pad \in Pads :
          GiveUrl(scheme, host, username, tweet_id, query, pad)
    \/ ParseUrl

SpecUrl == Init /\ [][NextUrl]_vars

\* ------------------------ sheet synchronisation over a queue in use
NextSheet ==
    \/ \E t \in TweetIds : Add(t)
    \/ \E t \in TweetIds : Approve(t)
    \/ \E t \in TweetIds, r \in SkipReasons : SkipWithReason(t, r)
    \/ \E decisions \in SheetDecisions : SyncFromSheet(decisions)

SpecSheet == Init /\ [][NextSheet]_vars

\* ------------------------------------- generate() calls of one instance
NextGenerate ==
    \/ \E enabled_csv \in EnabledLists : NewGenerator(enabled_csv)
    \/ \E preferred \in TemplateNames \cup {NoTemplate}, chosen \in TemplateNames,
          att \in GenerateAttempts : GenerateCall(preferred, chosen, att)
    \/ GeneratorDay

SpecGenerate == Init /\ [][NextGenerate]_vars

\* ----------------- the queue files through crashes and damaged files
NextFiles ==
    \/ \E t \in TweetIds : QfAdd(t)
    \/ \E t \in TweetIds : QfApprove(t)
    \/ \E t \in TweetIds : QfSetGenerated(t)
    \/ QfRead
    \/ QfDamage
    \/ \E t \in TweetIds : QfMarkPostedFirstSave(t)
    \/ QfMarkPostedSecondSave
    \/ QfStop
    \/ QfRestart

SpecFiles == Init /\ [][NextFiles]_vars

\* two runs of process-operations over the same requests
NextOperationsOverlap ==
    \/ \E o \in OpIds, k \in OpKinds, t \in TweetIds \cup {NoId} :
           OperationRequested(o, k, t)
    \/ \E r \in PoRuns : PorStart(r)
    \/ \E r \in PoRuns : PorMarkRunning(r)
    \/ \E r \in PoRuns, outcome \in OpOutcomes : PorExecute(r, outcome)

SpecOperationsOverlap == Init /\ [][NextOperationsOverlap]_vars


\* ======================================================== properties
\* no tweet_id twice within pending and processed together
UniqueIds(pend, proc) ==
    \A t \in TweetIds : Cardinality(Indices(pend, t)) + Cardinality(Indices(proc, t)) <= 1

\* C1: after any sequence of Queue Store operations executed one at a
\* time, no tweet_id occurs more than once in pending and processed together.
C1_UniqueTweetIds == UniqueIds(pending, processed)

\* an add of an id that had been posted was refused
C1_Witness ==
    /\ lastOp.name = "add"
    /\ ~lastOp.ret
    /\ lastOp.id \in Ids(processed)

\* C2: add returns false exactly when the tweet_id is already in pending or
\* processed; then neither store changes; when it returns true exactly one
\* record, pending and with empty generated_text, is appended to pending.
C2_AddContract ==
    [][lastOp'.name = "add" =>
         /\ (lastOp'.ret = FALSE) <=> (lastOp'.id \in Ids(pending) \cup Ids(processed))
         /\ processed' = processed
         /\ lastOp'.ret = FALSE => pending' = pending
         /\ lastOp'.ret = TRUE =>
               /\ Len(pending') = Len(pending) + 1
               /\ SubSeq(pending', 1, Len(pending)) = pending
               /\ pending'[Len(pending')].tweet_id = lastOp'.id
               /\ pending'[Len(pending')].status = "pending"
               /\ pending'[Len(pending')].generated_text = NoText]_vars

\* the second identical add was refused
C2_Witness ==
    /\ lastOp.name = "add"
    /\ ~lastOp.ret
    /\ lastOp.id \in Ids(pending)

\* C5 as stated: a tweet_id that was approved or skipped is never pending again.
C5_NeverPendingAgain ==
    \A t \in everDecided : StatusIn(pending, t) # "pending"

\* C5 amended: no single operation turns an approved or skipped record back
\* to pending; while the record stays in the pending store its status stays
\* approved or skipped.
C5_NoStepBackToPending ==
    [][\A t \in TweetIds :
          (StatusIn(pending, t) \in {"approved", "skipped"} /\ t \in Ids(pending'))
              => StatusIn(pending', t) \in {"approved", "skipped"}]_vars

\* an approved record was skipped (approved -> skipped is possible)
C5_Witness ==
    /\ lastOp.name = "skip_with_reason"
    /\ lastOp.prev = "approved"
    /\ StatusIn(pending, lastOp.id) = "skipped"

CurationChanges ==
    {t \in TweetIds :
        /\ t \in Ids(pending) /\ t \in Ids(pending')
        /\ StatusIn(pending', t) # StatusIn(pending, t)
        /\ StatusIn(pending', t) \in {"approved", "skipped"}}

\* C7: every change of a curation status appends exactly one feedback
\* entry, so entries and curation transitions stay equal in number.
C7_OneEntryPerTransition ==
    [][Len(feedback'.entries) - Len(feedback.entries) = Cardinality(CurationChanges)]_vars

\* C8: mark_posted moves the record from pending to the end of processed
\* with status posted, the given posted_tweet_id and a posted_at stamp;
\* every posted record carries posted_tweet_id and posted_at.
C8_MarkPostedMoves ==
    /\ [](\A i \in 1..Len(processed) :
            processed[i].status = "posted" =>
                (processed[i].posted_tweet_id # Absent /\ processed[i].posted_at # 0))
    /\ [](\A i \in 1..Len(pending) : pending[i].status # "posted")
    /\ [][(lastOp'.name = "mark_posted" /\ lastOp'.ret) =>
            /\ lastOp'.id \in Ids(pending)
            /\ lastOp'.id \notin Ids(pending')
            /\ Len(pending') = Len(pending) - 1
            /\ Len(processed') = Len(processed) + 1
            /\ SubSeq(processed', 1, Len(processed)) = processed
            /\ processed'[Len(processed')] =
                  [pending[FirstIndex(pending, lastOp'.id)] EXCEPT
                      !.status = "posted",
                      !.posted_tweet_id = lastOp'.arg,
                      !.posted_at = now]
            /\ now # 0]_vars

\* a record was moved to processed by mark_posted
C8_Witness ==
    /\ lastOp.name = "mark_posted"
    /\ lastOp.ret
    /\ StatusIn(processed, lastOp.id) = "posted"
    /\ lastOp.id \notin Ids(pending)

\* the record of the pending store with this tweet_id
PendingRecord(t) == pending[FirstIndex(pending, t)]

\* C3: a record is sent to the posting RPC, and moved to processed as
\* posted, only while it is approved with a non-empty generated_text.
C3_OnlyApprovedGeneratedPosted ==
    /\ []((run.cmd = "curate_post" /\ wire # NoReq) =>
            /\ run.quote_tweet_id \in Ids(pending)
            /\ PendingRecord(run.quote_tweet_id).status = "approved"
            /\ PendingRecord(run.quote_tweet_id).generated_text # NoText)
    /\ [][\A t \in TweetIds :
            (t \notin Ids(processed) /\ t \in Ids(processed')) =>
                /\ StatusIn(pending, t) = "approved"
                /\ PendingRecord(t).generated_text # NoText
                /\ StatusIn(processed', t) = "posted"]_vars

\* a record that was generated and later posted sits in processed
C3_Witness ==
    /\ Len(processed) > 0
    /\ processed[1].status = "posted"
    /\ processed[1].generated_text # NoText

\* C4: every text on its way to the posting RPC is the text of the latest
\* SafetyChecker.check call, and that call returned is_safe.
C4_SentTextWasChecked ==
    wire # NoReq =>
        /\ checked.text = wire.text
        /\ checked.is_safe
        /\ checked.is_quote_rt = (run.cmd = "curate_post")

\* a retried request of curate-post is in flight
C4_Witness ==
    /\ wire # NoReq
    /\ run.cmd = "curate_post"
    /\ run.attempt > 0

\* C9: when post_tweet raises, the record stays in pending, approved and
\* with its generated_text, and processed does not change; processed
\* changes only after post_tweet returned.
C9_FailedPostLeavesQueue ==
    /\ []((run.cmd = "curate_post" /\ run.pc = "raised") =>
            /\ StatusIn(pending, run.quote_tweet_id) = "approved"
            /\ PendingRecord(run.quote_tweet_id).generated_text = run.text
            /\ run.quote_tweet_id \notin Ids(processed))
    /\ [][(run.cmd = "curate_post" /\ run.pc = "raised") =>
            (pending' = pending /\ processed' = processed)]_vars
    /\ [][processed' # processed => (run.pc = "returned" /\ run.result # Absent)]_vars

\* post_tweet raised after its last retry and the loop went on
C9_Witness ==
    /\ run.cmd = "curate_post"
    /\ run.pc = "item"
    /\ run.attempt = MaxAttempts - 1
    /\ run.items = <<>>
    /\ run.quote_tweet_id \in Ids(pending)

\* C10: when the loads and saves of two runs interleave, no tweet_id is in
\* the pending store and in the processed store at once.
C10_OverlapKeepsStoresDisjoint ==
    \A t \in TweetIds : ~(t \in Ids(pending) /\ t \in Ids(processed))

\* C11: when two curate-post runs overlap, each approved and generated record
\* is published by the posting RPC at most once in total.
C11_PublishedAtMostOnce == \A t \in TweetIds : sent[t] <= 1

\* the returned plan's slots of one type
TypeCount(items, t) == Cardinality({i \in 1..Len(items) : items[i].type = t})
\* the slots _enforce_min_interval moved
Pushed(p) == {i \in 1..Len(p.items) : MinuteOfDay(p.items[i]) # MinuteOfDay(p.before[i])}

\* C12: in every plan plan_daily returns, consecutive slots are at least
\* MIN_INTERVAL_MINUTES (60) apart in minute of day, whatever slots were
\* selected and whatever jitter was drawn.
C12_MinInterval ==
    plan.pc = "done" =>
        \A i \in 1..(Len(plan.items) - 1) :
            MinuteOfDay(plan.items[i + 1]) - MinuteOfDay(plan.items[i]) >= MinIntervalMinutes

\* a returned plan in which the sweep moved a slot to exactly the minimum
\* after its predecessor
C12_Witness ==
    /\ plan.pc = "done"
    /\ \E i \in Pushed(plan) :
          /\ i > 1
          /\ MinuteOfDay(plan.before[i]) - MinuteOfDay(plan.before[i - 1]) < MinIntervalMinutes
          /\ MinuteOfDay(plan.items[i]) - MinuteOfDay(plan.items[i - 1]) = MinIntervalMinutes

\* C13: in every plan plan_daily returns, every window of
\* max_consecutive_quotes + 1 consecutive slots holds an original.
C13_WindowHasOriginal ==
    plan.pc = "done" =>
        \A i \in 1..(Len(plan.items) - MaxConsecutiveQuotes) :
            \E j \in i..(i + MaxConsecutiveQuotes) : plan.items[j].type = "original"

\* a returned plan where a quote-only slot became an original after a full
\* streak although the quota was not used up (a later slot is a quote)
C13_Witness ==
    /\ plan.pc = "done"
    /\ \E i \in 3..Len(plan.items) :
          /\ plan.items[i].type_pool = {"quote_rt"}
          /\ plan.items[i].type = "original"
          /\ plan.items[i - 1].type = "quote_rt"
          /\ plan.items[i - 2].type = "quote_rt"
          /\ \E j \in (i + 1)..Len(plan.items) : plan.items[j].type = "quote_rt"

\* C14: in every plan of N slots plan_daily(available_quotes) returns, the
\* quote_rt slots are at most floor(N * quote_rt_ratio_max) and at most
\* available_quotes.
C14_QuoteQuota ==
    plan.pc = "done" =>
        /\ TypeCount(plan.items, "quote_rt") <= (Len(plan.items) * QuoteRatioMaxTenths) \div 10
        /\ TypeCount(plan.items, "quote_rt") <= plan.available_quotes

\* a returned plan of 7 slots whose quotes reach the ratio quota of 4 with
\* candidates to spare
C14_Witness ==
    /\ plan.pc = "done"
    /\ Len(plan.items) = 7
    /\ plan.available_quotes = 10
    /\ TypeCount(plan.items, "quote_rt") = 4

\* C15: in every plan made with an account start date, the quote_rt slots do
\* not exceed the phase's daily quote cap and the original slots do not
\* exceed the phase's daily originals cap.
C15_WarmupCaps ==
    (plan.pc = "done" /\ plan.limits.phase # "full") =>
        /\ TypeCount(plan.items, "quote_rt") <= plan.limits.daily_quotes
        /\ TypeCount(plan.items, "original") <= plan.limits.daily_originals

\* C16: plan_daily returns N slots with distinct slot_ids where
\* min(daily_min, cap) <= N <= min(daily_max, cap), cap being the phase's
\* quote cap plus its originals cap, also for caps below 2.
C16_PlanSize ==
    plan.pc = "done" =>
        /\ \A i, j \in 1..Len(plan.items) :
              plan.items[i].slot_id = plan.items[j].slot_id => i = j
        /\ EffectiveMin(plan.limits) <= Len(plan.items)
        /\ Len(plan.items) <= EffectiveMax(plan.limits)

\* C17: after the jitter and after the interval sweep, every slot of the plan
\* has scheduled_hour in 6..23 and scheduled_minute in 0..59.
C17_TimesInWindow ==
    plan.pc \in {"jittered", "done"} =>
        \A i \in 1..Len(plan.items) :
            /\ plan.items[i].scheduled_hour \in 6..23
            /\ plan.items[i].scheduled_minute \in 0..59

\* a returned full plan whose first slot the jitter carried into the hour
\* before and whose last slot the sweep moved
C17_Witness ==
    /\ plan.pc = "done"
    /\ Len(plan.items) = Len(DefaultSlots)
    /\ plan.items[1].scheduled_hour = 6
    /\ Len(plan.items) \in Pushed(plan)

\* a keyword's weight in a preferences document, 1.0 when the key is missing
WeightIn(prefs, k) == GetOr(prefs.keyword_weights[k], DefaultWeight)
\* two weights at most MAX_WEIGHT_CHANGE apart
Within(a, b) == a - b <= MaxWeightChange /\ b - a <= MaxWeightChange

C19_VersionStep ==
    updater.calls > 0 =>
        IF updater.last.persisted
        THEN prefsFile.version =
                 <<GetOr(updater.last.file_before.version, DefaultVersion) + 1>>
        ELSE prefsFile = updater.last.file_before

\* C20: across any number of sync_queue_decisions runs each remote decision
\* is applied to the Queue Store at most once: an applied decision is
\* deleted from the remote store before a later run can read it, and a
\* decision that was not applied is not deleted and mutates nothing.
C20_AppliedAtMostOnce ==
    /\ \A n \in 1..MaxDecisions : sync.applied[n] <= 1
    /\ sync.last.ran =>
         /\ sync.last.processed = sync.last.deleted
         /\ sync.last.processed = {} => ~sync.last.mutated

\* C21: every request that process-operations marks running is, later in the
\* same run, marked completed or failed: when the run has ended no request
\* it marked is left running, and a status only moves pending -> running ->
\* completed or failed.
C21_RunningIsSettled ==
    /\ po.pc = "idle" =>
         \A o \in po.marked : ops[o].status \in {"completed", "failed"}
    /\ po.moves \subseteq {<<"pending", "running">>, <<"running", "completed">>,
                           <<"running", "failed">>}

\* C22: when the posting RPC answers curate-post's request with 403 and a
\* "Quoting" detail, and the record's source URL is known, post_tweet goes
\* on to exactly one fallback request with text + newline + URL and without
\* quote_tweet_id; its success makes the record posted, after its failure
\* nothing more is sent for the record.
C22_QuotingFallback ==
    /\ [][(run.cmd = "curate_post" /\ run.pc = "wait" /\ run'.pc # "wait"
             /\ run'.resp = "403_quoting" /\ UrlOf(run.quote_tweet_id) # NoUrl)
            => run'.pc = "fb_send"]_vars
    /\ [][(run.cmd = "curate_post" /\ run.pc = "fb_send" /\ run'.pc # "fb_send")
            => (wire'.text = FallbackText(run.text) /\ wire'.quote_tweet_id = NoId)]_vars
    /\ [][(run.cmd = "curate_post" /\ run.pc = "fb_wait" /\ run'.pc # "fb_wait")
            => run'.pc = (IF run'.resp = "200" THEN "returned" ELSE "raised")]_vars

\* C23: an answer of 401, or of 403 without the quote-restriction detail,
\* makes post_tweet fail at once: no further request for that post, and the
\* Queue Store keeps its content.
C23_PermanentFailsAtOnce ==
    [][(run.pc = "wait" /\ run'.pc # "wait" /\ run'.resp \in {"401", "403_json"})
         => (run'.pc = "raised" /\ pending' = pending /\ processed' = processed)]_vars

\* C24: safe_json_load on a file that does not parse returns the content of
\* the .bak file when that parses, and rewrites the main file with it;
\* otherwise it returns an empty list and leaves the main file an empty
\* list. A missing file gives an empty list. (The function has no raise
\* for content: every branch returns.)
C24_LoadRecovers ==
    io.load.ran =>
        /\ ~io.load.had_main => io.load.ret = EmptyList
        /\ (io.load.had_main /\ ~Parses(io.load.main_before)) =>
             IF io.load.had_bak /\ Parses(io.load.bak_before)
             THEN io.load.ret = io.load.bak_before /\ io.load.main_after = io.load.bak_before
             ELSE io.load.ret = EmptyList /\ io.load.main_after = EmptyList

\* a corrupt main file was restored from a .bak file that parses
C24_Witness ==
    /\ io.load.ran
    /\ io.load.had_main
    /\ ~Parses(io.load.main_before)
    /\ io.load.had_bak
    /\ io.load.bak_before = DataA
    /\ io.load.ret = DataA
    /\ io.load.main_after = DataA

\* C25: a reader of the target of atomic_json_save reads a complete document,
\* the previous one or the new one, never a partially written file, also
\* when two writers of the target overlap and share the .tmp sibling.
C25_ReaderSeesWhole == io.seen => Parses(io.read)

\* C26: retry_with_backoff calls fn at most max_retries + 1 times, returns
\* the first successful result without another call, sleeps
\* base_delay * 2^k before call k + 2 and not after the final failure, and
\* after max_retries + 1 failures raises the last error.
C26_RetryContract ==
    LET calls == Len(retry.results)
    IN /\ calls <= retry.max_retries + 1
       /\ \A k \in 1..calls :
            retry.results[k] \in FnValues => (k = calls /\ retry.pc = "returned")
       /\ retry.pc = "returned" =>
            (calls >= 1 /\ retry.results[calls] \in FnValues
               /\ retry.out = retry.results[calls])
       /\ Len(retry.slept) = (IF retry.pc = "call" THEN calls
                              ELSE IF calls = 0 THEN 0 ELSE calls - 1)
       /\ \A k \in 1..Len(retry.slept) : retry.slept[k] = retry.base_delay * Pow2(k - 1)
       /\ retry.pc = "raised" =>
            /\ calls = retry.max_retries + 1
            /\ \A k \in 1..calls : retry.results[k] \in FnErrors
            /\ retry.out = retry.results[calls]

\* every call failed: two sleeps, the second twice the first, then the raise
C26_Witness ==
    /\ retry.pc = "raised"
    /\ retry.max_retries = 2
    /\ retry.base_delay = 2
    /\ retry.slept = <<2, 4>>
    /\ retry.results = <<"e1", "e1", "e2">>
    /\ retry.out = "e2"

\* C27: when every generation attempt for an approved record failed the
\* safety gate, curate stores no text for it: the record holds no text that
\* fails the gate and get_generated does not return it.
C27_UnsafeGenerationNotStored ==
    \A t \in run.gen_unsafe :
        t \in Ids(pending) =>
            /\ PendingRecord(t).generated_text = NoText
                 \/ IsSafe(PendingRecord(t).generated_text, FALSE)
            /\ IsSafe(PendingRecord(t).generated_text, FALSE)
                 \/ t \notin Ids(GetGenerated(pending))

\* the processed records stamped as posted on day d
PostedOn(proc, d) ==
    Cardinality({i \in 1..Len(proc) : proc[i].status = "posted" /\ proc[i].posted_at = d})

\* C28: with curate-post runs executed one after another, a run started when
\* the number of records posted today has reached daily_limit_per_account
\* sends no request, and whenever a run records a post the number of records
\* posted that day does not exceed the limit.
C28_DailyCap ==
    [][/\ (run.cmd = "none" /\ PostedOn(processed, now) >= limit)
             => run'.cmd # "curate_post"
       /\ (run.cmd = "curate_post" /\ processed' # processed)
             => PostedOn(processed', now') <= limit]_vars

\* a run has posted up to the limit while a generated record still waits
C28_Witness ==
    /\ run.cmd = "none"
    /\ PostedOn(processed, now) = limit
    /\ GetGenerated(pending) # <<>>

\* C29: curate-post publishes nothing while its previous publication is less
\* than posting_interval_min_minutes old.
C29_MinIntervalBetweenPosts ==
    [][(/\ run.cmd = "curate_post"
        /\ run.pc \in {"wait", "fb_wait"}
        /\ run'.pc \notin {"wait", "fb_wait"}
        /\ run'.resp \in Published)
          => lastPost # Recent]_vars

\* C30: parse_url gives back the username and the tweet id a URL was made
\* of, for a URL made by build_url and for a URL of each supported host form
\* (x.com, twitter.com, mobile.twitter.com, vxtwitter.com, fxtwitter.com),
\* with or without query parameters.
C30_ParseRoundTrip ==
    (urlv.pc = "parsed" /\ (urlv.built \/ urlv.host \in SupportedHosts))
        => urlv.result = <<urlv.username, urlv.tweet_id>>

\* a mobile.twitter.com URL with a query, whose username has a digit and an
\* underscore, has been parsed
C30_Witness ==
    /\ urlv.pc = "parsed"
    /\ urlv.host = HostMobileTwitter
    /\ urlv.query # <<>>
    /\ urlv.username = <<"_", "7">>
    /\ urlv.result = <<urlv.username, urlv.tweet_id>>

\* C31: sync_from_sheet changes a record only from pending to approved or
\* from pending to skipped; records that are approved or skipped stay as they
\* are and no record appears or disappears.
C31_SheetOnlyDecidesPending ==
    [][lastOp'.name = "sync_from_sheet" =>
          /\ Len(pending') = Len(pending)
          /\ \A i \in 1..Len(pending) :
                pending'[i] # pending[i] =>
                    /\ pending[i].status = "pending"
                    /\ pending'[i].status \in {"approved", "skipped"}]_vars

\* C32: one _generate_single request calls the LLM backend at most 3 times
\* before it gives up and returns no text.
C32_AtMostThreeLlmCalls ==
    retry.by = "_generate_single" =>
        /\ Len(retry.results) <= 3
        /\ (retry.pc = "raised" => GenerateSingleReturn(retry) = "None")

\* C33: a generate() call re-prompts only when the text it judged last has
\* score.total < 5 or failed the safety check, makes at most 2 re-prompts
\* after the first attempt, and uses one template_id for all its attempts.
C33_RepromptRule ==
    LET c == generator.call
    IN  c.done =>
          /\ Len(c.reprompts) <= 2
          /\ \A k \in 1..Len(c.reprompts) :
                c.reprompts[k].score < 5 \/ ~IsSafe(c.reprompts[k], FALSE)
          /\ c.first = NoText => c.reprompts = <<>>
          /\ \A k \in 1..Len(c.templates) : c.templates[k] = c.template_id

\* a call that re-prompted twice, first for an NG word, then for a low score
C33_Witness ==
    /\ generator.call.done
    /\ generator.call.reprompts = <<TextNg, TextLow>>
    /\ generator.call.text = TextOk

\* the enabled templates that are templates of TEMPLATE_IDS
EnabledTemplates(g) == Members(EnabledIds(g.enabled)) \cap Members(TEMPLATE_IDS)

\* C34: _get_template_id returns no template whose usage count of the day
\* has reached its max_daily_uses while an enabled template is below its
\* cap, and a call on a new date starts from cleared counters.
C34_TemplateCap ==
    LET c == generator.call
    IN  c.done =>
          /\ (\E t \in EnabledTemplates(generator) : c.usage_before[t] < MaxDailyGet(t))
                => c.usage_before[c.template_id] < MaxDailyGet(c.template_id)
          /\ c.date_changed => c.usage_before = NoUsage

\* the preferred template was at its cap and another enabled template, still
\* below its cap, was returned
C34_Witness ==
    /\ generator.call.done
    /\ generator.call.preferred = "translate_comment"
    /\ generator.call.usage_before["translate_comment"] = 1
    /\ generator.call.template_id = "summary_points"
    /\ generator.call.usage_before["summary_points"] = 1

\* the tweet_ids a queue file holds
QfIds(file) == IF IsList(file) THEN Ids(file.data) ELSE {}

\* C35: when the process stops between the two writes of mark_posted, the
\* record being posted is still in the pending file or in the processed file.
C35_StoppedMarkPostedKeepsRecord ==
    (qf.pc = "stopped" /\ qf.mp.found)
        => qf.mp.id \in QfIds(qf.pending) \cup QfIds(qf.processed)

\* C36: after the pending file has been recovered from its .bak, no record
\* of the processed file is in the pending file.
C36_RecoveryKeepsPostedOut ==
    qf.recovered => QfIds(qf.pending) \cap QfIds(qf.processed) = {}


\* entries of the feedback file with this decision, of one author or of all
DecidedEntries(decision) ==
    {i \in 1..Len(feedback.entries) : feedback.entries[i].decision = decision}
DecidedEntriesOf(source, decision) ==
    {i \in DecidedEntries(decision) : feedback.entries[i].author_username = source}

\* C37: in the feedback file stats.total is the number of entries and the sum
\* of stats.approved and stats.skipped, and every by_source counter is the
\* number of entries of that author with that decision.
C37_FeedbackStatsMatchEntries ==
    /\ feedback.stats.total = Len(feedback.entries)
    /\ feedback.stats.total = feedback.stats.approved + feedback.stats.skipped
    /\ \A source \in DOMAIN feedback.stats.by_source :
          \A decision \in {"approved", "skipped"} :
              feedback.stats.by_source[source][decision]
                  = Cardinality(DecidedEntriesOf(source, decision))

\* both decisions have been recorded, for two authors
C37_Witness ==
    /\ lastOp.name \in {"approve", "skip_with_reason"}
    /\ DecidedEntries("approved") # {}
    /\ DecidedEntries("skipped") # {}
    /\ Cardinality(DOMAIN feedback.stats.by_source) = 2

\* the candidates whose status differs between two pending stores
StatusChanged(before, after) ==
    {u \in TweetIds : StatusIn(before, u) # StatusIn(after, u)}

\* C38: the step that executes an add-tweet request changes the status of no
\* candidate other than the tweet of the request.
C38_AddTweetTouchesOnlyItsTweet ==
    [][\A o \in OpIds :
          (po.pc = "exec" /\ po.list[po.i] = o /\ ops[o].kind = "add-tweet"
             /\ ops'[o].status # ops[o].status)
              => StatusChanged(pending, pending') \subseteq {ops[o].tweet_url}]_vars

\* C39: with two overlapping process-operations runs the command of each
\* request is started at most once.
C39_CommandStartedOnce ==
    \A o \in OpIds : por.started[o] <= 1


\* C40: in mode manual_approval no request of the post command or of the
\* curate-post command leaves for the posting endpoint.
C40_ManualApprovalSendsNothing ==
    [][(run.pc \in {"send", "fb_send"} /\ run'.pc \in {"wait", "fb_wait"}
          /\ wire'.kind \in {"tweet", "fallback"})
         => mode # "manual_approval"]_vars
====
